---- MODULE Spec2Model ----
(***************************************************************************)
(* Model of the ingestion / deduplication pipeline of the account monitor: *)
(* the event store (src/src/database.rs), the explorer client              *)
(* (src/src/chain_api.rs) and the scraping service (src/src/core.rs).      *)
(***************************************************************************)
EXTENDS Integers, Sequences, FiniteSets, TLC

(***************************************************************************)
(* Bounds of the model.                                                    *)
(***************************************************************************)
\* number of directly issued store calls in one behaviour
MaxCalls == 2
\* the wall clock of the store specification runs over 0..MaxClock
MaxClock == 1
\* sweeps over the account list a fetcher completes in one behaviour
MaxSweeps == 2
\* explorer requests and store calls, together, that return an error in
\* one behaviour
MaxErrors == 2
\* calls of ScrapingService::run in one behaviour
MaxRuns == 4
MaxReports == 2

(***************************************************************************)
(* Program constants.                                                      *)
(***************************************************************************)
ROW_AMOUNT == 10
FAILED_TASK_SLEEP == 30
LOOP_INTERVAL == 300
REQUEST_TIMEOUT == 5
PUBLISHER_REQUEST_TIMEOUT == 1
\* the modulus of Timestamp (u64) arithmetic, scaled to the clock of the model
U64 == 65536

COLL_TRANSFER_RAW == "raw_transfers"
COLL_REWARD_SLASH_RAW == "raw_rewards_slashes"
COLL_NOMINATIONS_RAW == "raw_rewards_slashes"

Collections == {COLL_TRANSFER_RAW, COLL_REWARD_SLASH_RAW, COLL_NOMINATIONS_RAW}

\* enum Network and Network::as_str
Network == {"polkadot", "kusama"}

\* the three event kinds (the element type of a page)
Kinds == {"Transfer", "RewardSlash", "Nomination"}

\* Option<Vec<T>>, the entry list of a page: None and Some(list)
None == [some |-> FALSE, list |-> <<>>]

Some(list) == [some |-> TRUE, list |-> list]

VARIABLES
    db,         \* collection name -> set of documents
    now,        \* Timestamp::now(), seconds
    op,         \* the most recent store call and what it returned: its
                \* number n, kind, context, page, Ok/Err, the returned count,
                \* the number of entries an update_one ran for, the time,
                \* and whether it repeats the call before it, which returned Ok
    offered,    \* <<kind, context_id, key>> of every entry an upsert ran for
    contexts,   \* ScrapingService::contexts, the account list
    chain,      \* what the explorer holds (a scenario, fixed in a behaviour)
    cache,      \* ChainApi::cache_index and ChainApi::cache_extrinsics
    guardUntil, \* ChainApi::guard_lock is held until this time
    pc,         \* per fetcher task: where it is in run_fetcher
    idx,        \* per fetcher: position of `context` in the account list
    page,       \* per fetcher: the local variable `page`
    resp,       \* per fetcher: the local variable `resp`
    newly,      \* per fetcher: the local variable `newly_inserted`
    wakeAt,     \* per fetcher: when its current sleep ends
    sweeps,     \* per fetcher: sweeps completed
    faults,     \* calls that may still return an error in this behaviour
    visit,      \* per fetcher, history: requests issued for the current
                \* account, whether all its explorer entries were unpersisted
                \* when the visit began, and the request issued before
    failures,   \* per fetcher, history: the time of the last error and the
                \* number of errors in a row
    reasons,    \* per fetcher, history: why paging of an account has ended
    running,    \* ScrapingService::running, the modules registered
    spawned,    \* per module: the tasks run_fetcher has spawned for it
    calls,      \* history: the calls of ScrapingService::run and their results
    lastStart,  \* history: when the last explorer request started (-1: none)
    reportContexts, \* ReportGenerator::contexts, the account list
    report_range,   \* TransferReportGenerator::report_range
    last_report,    \* TransferReportGenerator::last_report
    build,          \* "debug" or "release": whether overflow checks are on
    reportPc,       \* the report task: where it is in do_run
    reportData,     \* the report task: the local variable `data`
    pending,        \* the report task: the reports still to publish
    pubGuardUntil,  \* GoogleDrive::guard_lock is held until this time
    reportWakeAt,   \* the report task: when its current sleep ends
    iterations,     \* the report task: iterations of its loop begun
    uploadFaults,   \* uploads that may still fail in this behaviour
    uploaded,       \* history: the uploads that succeeded, name and time
    query,          \* the most recent call of a DatabaseReader fetch
                    \* operation: its arguments and what it returned
    report_state,   \* the documents of the collection report_state
    cp,             \* per caller of fetch_checkpoint_offset: where it is,
                    \* its arguments, what find_one gave it, what it returned
    adding          \* the call of ScrapingService::add_contexts: whether it
                    \* waits for contexts.write() or has appended, its
                    \* argument, and, history, the fetchers that held
                    \* contexts.read() when it was made

storeVars  == <<db, now, op, offered>>
scrapeVars == <<contexts, chain, cache, guardUntil, pc, idx, page, resp,
                newly, wakeAt, sweeps, faults, visit, failures, reasons>>
serviceVars == <<running, spawned, calls, adding>>
reportVars == <<reportContexts, report_range, last_report, build, reportPc,
                reportData, pending, pubGuardUntil, reportWakeAt, iterations,
                uploadFaults, uploaded>>
readerVars == <<query, report_state, cp>>
otherVars == <<serviceVars, lastStart, reportVars, readerVars>>
vars == <<db, now, op, offered, contexts, chain, cache, guardUntil, pc, idx,
          page, resp, newly, wakeAt, sweeps, faults, visit, failures, reasons,
          running, spawned, calls, lastStart, reportContexts, report_range,
          last_report, build, reportPc, reportData, pending, pubGuardUntil,
          reportWakeAt, iterations, uploadFaults, uploaded,
          query, report_state, cp, adding>>

(***************************************************************************)
(* Contexts.                                                               *)
(***************************************************************************)
Stashes == {"alice", "bob"}

Context == [stash : Stashes, network : Network, description : {""}]

\* Context::id
ContextId(c) == [stash |-> c.stash, network |-> c.network]

(***************************************************************************)
(* The event store.  A document is ContextData<T> plus the _id the         *)
(* database gives it; kind stands for the shape of data (which of the      *)
(* fields extrinsic_index / extrinsic_hash / stash_account_display.address *)
(* the document has); data.key is the value of that field.                 *)
(***************************************************************************)
StoreCollection(kind) ==
    CASE kind = "Transfer"    -> COLL_TRANSFER_RAW
      [] kind = "RewardSlash" -> COLL_REWARD_SLASH_RAW
      [] kind = "Nomination"  -> COLL_NOMINATIONS_RAW

\* the collection each fetch operation reads
FetchCollection(kind) ==
    CASE kind = "Transfer"    -> COLL_TRANSFER_RAW
      [] kind = "RewardSlash" -> COLL_REWARD_SLASH_RAW
      [] kind = "Nomination"  -> COLL_NOMINATIONS_RAW

\* a filter on the natural key alone, without context_id
Matching_key_only(docs, kind, cid, key) ==
    {d \in docs : d.kind = kind /\ d.data.key = key}

\* the documents the filter {context_id, data.<natural key>} selects
Matching(docs, kind, cid, key) ==
    {d \in docs : d.kind = kind /\ d.context_id = cid /\ d.data.key = key}

NewId(docs) == Cardinality(docs) + 1

\* update_one(filter, {$set: doc}, upsert): overwrites the matched document
update_one_set(docs, kind, cid, ts, entry) ==
    LET m == Matching(docs, kind, cid, entry.key) IN
    IF m # {}
    THEN [docs |-> (docs \ m) \cup
                   {[d EXCEPT !.timestamp = ts, !.data = entry] : d \in m},
          upserted |-> FALSE]
    ELSE [docs |-> docs \cup {[id |-> NewId(docs), kind |-> kind,
                               context_id |-> cid, timestamp |-> ts,
                               data |-> entry]},
          upserted |-> TRUE]

\* insert_one(doc): no filter at all
update_one_insert(docs, kind, cid, ts, entry) ==
    [docs |-> docs \cup {[id |-> NewId(docs), kind |-> kind,
                          context_id |-> cid, timestamp |-> ts,
                          data |-> entry]},
     upserted |-> TRUE]

\* counts matched documents as upserted ones
update_one_matched(docs, kind, cid, ts, entry) ==
    IF Matching(docs, kind, cid, entry.key) # {}
    THEN [docs |-> docs, upserted |-> TRUE]
    ELSE [docs |-> docs \cup {[id |-> NewId(docs), kind |-> kind,
                               context_id |-> cid, timestamp |-> ts,
                               data |-> entry]},
          upserted |-> TRUE]

\* update_one(filter, {$setOnInsert: doc}, upsert = true)
update_one(docs, kind, cid, ts, entry) ==
    IF Matching(docs, kind, cid, entry.key) # {}
    THEN [docs |-> docs, upserted |-> FALSE]
    ELSE [docs |-> docs \cup {[id |-> NewId(docs), kind |-> kind,
                               context_id |-> cid, timestamp |-> ts,
                               data |-> entry]},
          upserted |-> TRUE]

\* the loop `for extrinsic in &extrinsics`: entry i onwards; the failAt-th
\* update_one returns an error (failAt = 0: none does)
RECURSIVE store_loop(_, _, _, _, _, _, _, _)
store_loop(docs, kind, cid, ts, entries, i, failAt, count) ==
    IF i > Len(entries)
    THEN [docs |-> docs, ok |-> TRUE, count |-> count, ran |-> Len(entries)]
    ELSE IF i = failAt
    THEN [docs |-> docs, ok |-> FALSE, count |-> count, ran |-> i - 1]
    ELSE LET res == update_one(docs, kind, cid, ts, entries[i]) IN
         store_loop(res.docs, kind, cid, ts, entries, i + 1, failAt,
                    IF res.upserted THEN count + 1 ELSE count)

\* the body shared by the three store operations
store_event(docs, kind, context, data, failAt, ts) ==
    IF data = None
    THEN [docs |-> docs, ok |-> FALSE, count |-> 0, ran |-> 0]
    ELSE store_loop(docs, kind, ContextId(context), ts, data.list, 1, failAt, 0)

store_transfer_event(docs, context, data, failAt, ts) ==
    store_event(docs, "Transfer", context, data, failAt, ts)

store_reward_slash_event(docs, context, data, failAt, ts) ==
    store_event(docs, "RewardSlash", context, data, failAt, ts)

store_nomination_event(docs, context, data, failAt, ts) ==
    store_event(docs, "Nomination", context, data, failAt, ts)

store_data(kind, docs, context, data, failAt, ts) ==
    CASE kind = "Transfer"    -> store_transfer_event(docs, context, data, failAt, ts)
      [] kind = "RewardSlash" -> store_reward_slash_event(docs, context, data, failAt, ts)
      [] kind = "Nomination"  -> store_nomination_event(docs, context, data, failAt, ts)

(***************************************************************************)
(* Helpers on pages and collections.                                       *)
(***************************************************************************)
PageKeys(data) == {data.list[i].key : i \in DOMAIN data.list}

KeysOf(docs, kind, cid) ==
    {d.data.key : d \in {x \in docs : x.kind = kind /\ x.context_id = cid}}

RecordsOf(docs, kind, cid) ==
    {d \in docs : d.kind = kind /\ d.context_id = cid}

\* no update_one fails, or the first or the last one of the page does
FailPoints(data) == {0, 1, Len(data.list)}

\* the effect of one store call on the state
DoStore(kind, context, data, failAt) ==
    LET coll == StoreCollection(kind)
        r == store_data(kind, db[coll], context, data, failAt, now) IN
    /\ db' = [db EXCEPT ![coll] = r.docs]
    /\ op' = [n |-> op.n + 1, kind |-> kind, ctx |-> context, page |-> data,
              ok |-> r.ok, ret |-> r.count, ran |-> r.ran, at |-> now,
              rep |-> (op.n > 0 /\ op.ok /\ op.kind = kind
                       /\ op.ctx = context /\ op.page = data)]
    /\ offered' = offered \cup
           {<<kind, ContextId(context), data.list[i].key>> : i \in 1..r.ran}

(***************************************************************************)
(* The explorer.  A scenario fixes, per kind and address, the entries the  *)
(* polkadot host holds, newest first, as natural keys:                     *)
(*   "backfill": alice has 13 transfers (one full page and 3 more); bob 3, *)
(*               one of them (key 13) a transfer between alice and bob     *)
(*   "exact":    alice has exactly ROW_AMOUNT transfers, bob none          *)
(*   "rewards":  alice has three reward events, two in one extrinsic       *)
(*   "both":     alice has one transfer, bob has one reward                *)
(***************************************************************************)
Scenarios == {"backfill", "exact", "rewards", "both"}

Range(a, b) == [i \in 1..(b - a + 1) |-> a + i - 1]

History(scenario, kind, address) ==
    CASE scenario = "backfill" /\ kind = "Transfer" /\ address = "alice"
            -> Range(1, ROW_AMOUNT + 3)
      [] scenario = "backfill" /\ kind = "Transfer" /\ address = "bob"
            -> <<ROW_AMOUNT + 3, ROW_AMOUNT + 4, ROW_AMOUNT + 5>>
      [] scenario = "exact" /\ kind = "Transfer" /\ address = "alice"
            -> Range(1, ROW_AMOUNT)
      [] scenario = "rewards" /\ kind = "RewardSlash" /\ address = "alice"
            -> <<1, 1, 2>>
      [] scenario = "both" /\ kind = "Transfer" /\ address = "alice"
            -> <<1>>
      [] scenario = "both" /\ kind = "RewardSlash" /\ address = "bob"
            -> <<1>>
      [] scenario = "alice_down" /\ kind = "Transfer" /\ address = "bob"
            -> <<1>>
      [] scenario = "bob_down" /\ kind = "Transfer" /\ address = "alice"
            -> <<1>>
      [] OTHER -> <<>>

\* what the kusama host holds: in the scenario "kusama" one transfer of
\* bob, whose account is on kusama, and nothing in the other scenarios
KusamaHistory(scenario, kind, address) ==
    IF scenario = "kusama" /\ kind = "Transfer" /\ address = "bob"
    THEN <<21>> ELSE <<>>

Min(a, b) == IF a < b THEN a ELSE b

\* the response body to PageBody {address, row, page} sent to `host`: the
\* list is absent when the page holds nothing
explorer_page(host, kind, address, row, p) ==
    LET hist == IF host = "polkadot" THEN History(chain, kind, address)
                ELSE KusamaHistory(chain, kind, address)
        lo   == (p - 1) * row + 1
        hi   == Min(p * row, Len(hist)) IN
    IF lo > Len(hist) THEN None
    ELSE Some([i \in 1..(hi - lo + 1) |->
                 [key |-> hist[lo + i - 1], alt |-> FALSE, host |-> host]])

(***************************************************************************)
(* The explorer client, ChainApi.                                          *)
(***************************************************************************)
\* the host of the url a request is posted to
request_host(context) == "polkadot"

\* resp.data.transfers.retain(|t| !cache.contains(&t.extrinsic_index))
retain_unprocessed(list, cached) ==
    SelectSeq(list, LAMBDA e : e.key \notin cached)

\* request_transfer / request_reward_slash once the guard is passed and the
\* post has returned Ok: the response and the cache afterwards
request(kind, context, row, p, cached) ==
    LET raw == explorer_page(request_host(context), kind, context.stash, row, p) IN
    IF ~raw.some
    THEN [resp |-> raw, cache |-> cached]
    ELSE LET kept == retain_unprocessed(raw.list, cached) IN
         [resp  |-> Some(kept),
          cache |-> cached \cup {kept[i].key : i \in DOMAIN kept}]

\* no response counts as empty
is_empty_never(r) == FALSE

\* DataInfo::is_empty
is_empty(r) == ~r.some

(***************************************************************************)
(* The scraping service: one task per fetcher running run_fetcher.         *)
(*   pc = "sweep"        about to take contexts.read() and start the for   *)
(*        "fetch"        about to call fetch_data (waits for the guard)    *)
(*        "post"         guard passed, request in flight                   *)
(*        "store"        response in hand, about to call store_data        *)
(*        "loop_sleep"   sleep(LOOP_INTERVAL) after a sweep                *)
(*        "failed_sleep" sleep(FAILED_TASK_SLEEP) after local returned Err *)
(*        "off"          the module is not configured: no task             *)
(***************************************************************************)
\* TransferFetcher and RewardsSlashesFetcher, named by the kind they store
Fetchers == {"Transfer", "RewardSlash"}

\* the accounts file: one account on each network
Accounts ==
    << [stash |-> "alice", network |-> "polkadot", description |-> ""],
       [stash |-> "bob",   network |-> "kusama",   description |-> ""] >>

\* config.collection.modules, as configured together with each scenario
Modules(scenario) ==
    CASE scenario \in {"backfill", "exact", "kusama", "alice_down", "bob_down"}
            -> {"Transfer"}
      [] scenario = "rewards" -> {"RewardSlash"}
      [] scenario = "both"    -> {"Transfer", "RewardSlash"}
      [] OTHER                -> {}

\* the number of requests and writes that may fail in a behaviour
Faults(scenario) == IF scenario = "both" THEN 0 ELSE MaxErrors

NoVisit == [fetches |-> 0, fresh |-> FALSE, prev |-> [idx |-> 0, page |-> 0]]

NoFailure == [at |-> 0, streak |-> 0]

NoOp == [n |-> 0, kind |-> "Transfer", ctx |-> Accounts[1], page |-> None,
         ok |-> FALSE, ret |-> 0, ran |-> 0, at |-> 0, rep |-> FALSE]

\* enum ScrapingModule, each module named by the kind of event it stores
ScrapingModule == {"Transfer", "RewardSlash", "Nomination"}

\* the service after lib::run has registered the modules: one task each
Registered(modules) ==
    /\ running = modules
    /\ spawned = [m \in ScrapingModule |-> IF m \in modules THEN 1 ELSE 0]
    /\ calls = <<>>

\* Option<Timestamp>
NoTimestamp == [some |-> FALSE, at |-> 0]

SomeTimestamp(t) == [some |-> TRUE, at |-> t]

\* no report module is configured: no report task
NoReportTask ==
    /\ reportContexts = <<>>
    /\ report_range = 0
    /\ last_report = NoTimestamp
    /\ build = "release"
    /\ reportPc = "off"
    /\ reportData = <<>>
    /\ pending = <<>>
    /\ pubGuardUntil = 0
    /\ reportWakeAt = 0
    /\ iterations = 0
    /\ uploadFaults = 0
    /\ uploaded = <<>>

\* enum Occurrence
Occurrences == {"Daily", "Weekly", "Monthly"}

\* the tasks that call fetch_checkpoint_offset: two report generators
Generators == {"g1", "g2"}

NoQuery == [call |-> "none", contexts |-> <<>>, from |-> 0, to |-> 0,
            result |-> <<>>]

\* a generator that is not in fetch_checkpoint_offset
NoCall == [pc |-> "off", occurrence |-> "Daily",
           doc |-> [some |-> FALSE, id |-> 0],
           ret |-> [kind |-> "none", val |-> 0]]

\* no reader operation has been called, report_state is empty
NoReader ==
    /\ query = NoQuery
    /\ report_state = {}
    /\ cp = [g \in Generators |-> NoCall]

\* add_contexts has not been called since the tasks were spawned
NoAdding == [pc |-> "none", list |-> <<>>, during |-> {}]

\* the tasks as run_fetcher spawns them, for a given explorer content and
\* a number of calls that may fail
Tasks(scenario, budget) ==
    /\ contexts = Accounts
    /\ adding = NoAdding
    /\ chain = scenario
    /\ cache = [f \in Fetchers |-> {}]
    /\ guardUntil = 0
    /\ pc = [f \in Fetchers |-> IF f \in Modules(scenario) THEN "sweep" ELSE "off"]
    /\ idx = [f \in Fetchers |-> 0]
    /\ page = [f \in Fetchers |-> 1]
    /\ resp = [f \in Fetchers |-> None]
    /\ newly = [f \in Fetchers |-> 0]
    /\ wakeAt = [f \in Fetchers |-> 0]
    /\ sweeps = [f \in Fetchers |-> 0]
    /\ faults = budget
    /\ visit = [f \in Fetchers |-> NoVisit]
    /\ failures = [f \in Fetchers |-> NoFailure]
    /\ reasons = [f \in Fetchers |-> {}]
    /\ lastStart = -1
    /\ Registered(Modules(scenario))

Spawned(scenario) == Tasks(scenario, Faults(scenario))

Init ==
    /\ db = [c \in Collections |-> {}]
    /\ now = 0
    /\ op = NoOp
    /\ offered = {}
    /\ \E scenario \in Scenarios : Spawned(scenario)
    /\ NoReader
    /\ NoReportTask

HistoryKeys(f, context) ==
    {History(chain, f, context.stash)[i] :
        i \in DOMAIN History(chain, f, context.stash)}

\* whether nothing the explorer holds for the account is persisted under it
Unpersisted(f, context, docs) ==
    HistoryKeys(f, context) \cap KeysOf(docs, f, ContextId(context)) = {}

\* `if newly_inserted <= ROW_AMOUNT { break }`
should_break_le(n) == n = 0 \/ n <= ROW_AMOUNT

\* `if newly_inserted == 0 { break }`, `if newly_inserted < ROW_AMOUNT { break }`
should_break(n) == n = 0 \/ n < ROW_AMOUNT

\* `page += 1`
next_page(i, p) == [idx |-> i, page |-> p + 1]

\* the next iteration of the for loop without `page = 1`
next_account_keep_page(i, p) == [idx |-> i + 1, page |-> p]

\* `page = 1` and the next iteration of the for loop
next_account(i, p) == [idx |-> i + 1, page |-> 1]

\* the for loop moves on from the current account (after a break): to the
\* next account, or to the end of the sweep and sleep(LOOP_INTERVAL)
Advance(f, why, docs) ==
    LET nxt == next_account(idx[f], page[f]) IN
    /\ idx' = [idx EXCEPT ![f] = nxt.idx]
    /\ page' = [page EXCEPT ![f] = nxt.page]
    /\ reasons' = [reasons EXCEPT ![f] = @ \cup {why}]
    /\ IF nxt.idx > Len(contexts)
       THEN /\ pc' = [pc EXCEPT ![f] = "loop_sleep"]
            /\ wakeAt' = [wakeAt EXCEPT ![f] = now + LOOP_INTERVAL]
            /\ sweeps' = [sweeps EXCEPT ![f] = @ + 1]
            /\ visit' = [visit EXCEPT ![f].fetches = 0, ![f].fresh = FALSE]
       ELSE /\ pc' = [pc EXCEPT ![f] = "fetch"]
            /\ UNCHANGED <<wakeAt, sweeps>>
            /\ visit' = [visit EXCEPT
                   ![f].fetches = 0,
                   ![f].fresh = Unpersisted(f, contexts[nxt.idx], docs)]

\* the error takes every running task to the restart path
Fail_all(f) ==
    /\ pc' = [g \in Fetchers |-> IF pc[g] = "off" THEN "off" ELSE "failed_sleep"]
    /\ wakeAt' = [wakeAt EXCEPT ![f] = now + FAILED_TASK_SLEEP]
    /\ faults' = faults - 1
    /\ failures' = [failures EXCEPT ![f] = [at |-> now, streak |-> @.streak + 1]]
    /\ UNCHANGED <<idx, page, sweeps, reasons, visit>>

\* local returns Err: the spawned loop logs it and sleeps FAILED_TASK_SLEEP
Fail(f) ==
    /\ pc' = [pc EXCEPT ![f] = "failed_sleep"]
    /\ wakeAt' = [wakeAt EXCEPT ![f] = now + FAILED_TASK_SLEEP]
    /\ faults' = faults - 1
    /\ failures' = [failures EXCEPT ![f] = [at |-> now, streak |-> @.streak + 1]]
    /\ UNCHANGED <<idx, page, sweeps, reasons, visit>>

Succeeded(f) == failures' = [failures EXCEPT ![f].streak = 0]

\* the read guard is taken once, before the outer loop of local
ReadGuards_whole_task == {f \in Fetchers : pc[f] # "off"}

\* the fetchers that hold the guard of contexts.read(): the guard is a
\* temporary of the head of the for loop and lives until the loop is over
ReadGuards == {f \in Fetchers : pc[f] \in {"fetch", "post", "store"}}

\* contexts.read() is granted: the lock is fair, a reader queues behind a
\* call of write() that waits
CanRead == adding.pc # "waiting"

\* `for context in contexts.read().await.iter()`: the sweep begins
BeginSweep(f) ==
    /\ pc[f] = "sweep"
    /\ CanRead
    /\ IF Len(contexts) = 0
       THEN /\ pc' = [pc EXCEPT ![f] = "loop_sleep"]
            /\ wakeAt' = [wakeAt EXCEPT ![f] = now + LOOP_INTERVAL]
            /\ sweeps' = [sweeps EXCEPT ![f] = @ + 1]
            /\ UNCHANGED <<idx, visit>>
       ELSE /\ pc' = [pc EXCEPT ![f] = "fetch"]
            /\ idx' = [idx EXCEPT ![f] = 1]
            /\ visit' = [visit EXCEPT ![f] =
                   [fetches |-> 0,
                    fresh |-> Unpersisted(f, contexts[1], db[StoreCollection(f)]),
                    prev |-> [idx |-> 0, page |-> 0]]]
            /\ UNCHANGED <<wakeAt, sweeps>>
    /\ UNCHANGED <<otherVars, storeVars, contexts, chain, cache, guardUntil, page, resp,
                   newly, faults, failures, reasons>>

\* the lock is taken whether or not it is held
TimeGuard_unguarded(f) ==
    /\ pc[f] = "fetch"
    /\ guardUntil' = now + REQUEST_TIMEOUT
    /\ lastStart' = now
    /\ pc' = [pc EXCEPT ![f] = "post"]
    /\ visit' = [visit EXCEPT ![f].fetches = @ + 1,
                              ![f].prev = [idx |-> idx[f], page |-> page[f]]]
    /\ UNCHANGED <<serviceVars, reportVars, readerVars, storeVars, contexts, chain, cache, idx, page, resp,
                   newly, wakeAt, sweeps, faults, failures, reasons>>

\* time_guard: takes guard_lock; the task it spawns holds the lock for
\* REQUEST_TIMEOUT.  The request is then posted.
TimeGuard(f) ==
    /\ pc[f] = "fetch"
    /\ now >= guardUntil
    /\ guardUntil' = now + REQUEST_TIMEOUT
    /\ lastStart' = now
    /\ pc' = [pc EXCEPT ![f] = "post"]
    /\ visit' = [visit EXCEPT ![f].fetches = @ + 1,
                              ![f].prev = [idx |-> idx[f], page |-> page[f]]]
    /\ UNCHANGED <<serviceVars, reportVars, readerVars, storeVars, contexts, chain, cache, idx, page, resp,
                   newly, wakeAt, sweeps, faults, failures, reasons>>

\* the post returns Ok; the cache filter runs; `if resp.is_empty() { break }`
FetchReturns(f) ==
    /\ pc[f] = "post"
    /\ LET r == request(f, contexts[idx[f]], ROW_AMOUNT, page[f], cache[f]) IN
       /\ cache' = [cache EXCEPT ![f] = r.cache]
       /\ resp' = [resp EXCEPT ![f] = r.resp]
       /\ IF is_empty(r.resp)
          THEN Advance(f, "empty", db[StoreCollection(f)])
          ELSE /\ pc' = [pc EXCEPT ![f] = "store"]
               /\ UNCHANGED <<idx, page, wakeAt, sweeps, visit, reasons>>
    /\ Succeeded(f)
    /\ UNCHANGED <<otherVars, storeVars, contexts, chain, guardUntil, newly, faults>>

\* the post returns an error (transport, non-JSON body, decode mismatch)
FetchFails(f) ==
    /\ pc[f] = "post"
    /\ faults > 0
    /\ Fail(f)
    /\ UNCHANGED <<otherVars, storeVars, contexts, chain, cache, guardUntil, resp, newly>>

\* store_data returns Ok(newly_inserted); the two breaks, or `page += 1`
StoreReturns(f) ==
    /\ pc[f] = "store"
    /\ LET context == contexts[idx[f]]
           r == store_data(f, db[StoreCollection(f)], context, resp[f], 0, now) IN
       /\ r.ok
       /\ DoStore(f, context, resp[f], 0)
       /\ newly' = [newly EXCEPT ![f] = r.count]
       /\ IF should_break(r.count)
          THEN Advance(f, IF r.count = 0 THEN "zero" ELSE "short", r.docs)
          ELSE LET nxt == next_page(idx[f], page[f]) IN
               /\ idx' = [idx EXCEPT ![f] = nxt.idx]
               /\ page' = [page EXCEPT ![f] = nxt.page]
               /\ pc' = [pc EXCEPT ![f] = "fetch"]
               /\ UNCHANGED <<wakeAt, sweeps, visit, reasons>>
    /\ Succeeded(f)
    /\ UNCHANGED <<otherVars, now, contexts, chain, cache, guardUntil, resp, faults>>

\* store_data returns Err: the list is absent, or an update_one fails
StoreFails(f) ==
    /\ pc[f] = "store"
    /\ faults > 0
    /\ \E failAt \in FailPoints(resp[f]) :
          LET context == contexts[idx[f]]
              r == store_data(f, db[StoreCollection(f)], context, resp[f], failAt, now) IN
          /\ ~r.ok
          /\ DoStore(f, context, resp[f], failAt)
    /\ Fail(f)
    /\ UNCHANGED <<otherVars, now, contexts, chain, cache, guardUntil, resp, newly>>

\* sleep(LOOP_INTERVAL) is over: the outer loop of local goes round
WakeLoop(f) ==
    /\ pc[f] = "loop_sleep"
    /\ now >= wakeAt[f]
    /\ sweeps[f] < MaxSweeps
    /\ pc' = [pc EXCEPT ![f] = "sweep"]
    /\ UNCHANGED <<otherVars, storeVars, contexts, chain, cache, guardUntil, idx, page,
                   resp, newly, wakeAt, sweeps, faults, visit, failures, reasons>>

\* the task resumes where local returned the error
Restart_resume(f) ==
    /\ pc[f] = "failed_sleep"
    /\ now >= wakeAt[f]
    /\ pc' = [pc EXCEPT ![f] = "fetch"]
    /\ UNCHANGED <<otherVars, storeVars, contexts, chain, cache, guardUntil, idx, page,
                   resp, newly, wakeAt, sweeps, faults, visit, failures, reasons>>

\* local starts again with the page the error left
Restart_keep_page(f) ==
    /\ pc[f] = "failed_sleep"
    /\ now >= wakeAt[f]
    /\ pc' = [pc EXCEPT ![f] = "sweep"]
    /\ idx' = [idx EXCEPT ![f] = 0]
    /\ UNCHANGED <<otherVars, storeVars, contexts, chain, cache, guardUntil, page,
                   resp, newly, wakeAt, sweeps, faults, visit, failures, reasons>>

\* sleep(FAILED_TASK_SLEEP) is over: the spawned loop calls local again,
\* which starts with `let mut page = 1`
Restart(f) ==
    /\ pc[f] = "failed_sleep"
    /\ now >= wakeAt[f]
    /\ pc' = [pc EXCEPT ![f] = "sweep"]
    /\ page' = [page EXCEPT ![f] = 1]
    /\ idx' = [idx EXCEPT ![f] = 0]
    /\ UNCHANGED <<otherVars, storeVars, contexts, chain, cache, guardUntil, resp, newly,
                   wakeAt, sweeps, faults, visit, failures, reasons>>

\* the holder of the explorer guard never lets go of it
Deadlines_never_released ==
    {wakeAt[f] : f \in {g \in Fetchers : pc[g] \in {"loop_sleep", "failed_sleep"}}}

\* the times at which a sleeping task or the guard's holder is due
Deadlines ==
    {wakeAt[f] : f \in {g \in Fetchers : pc[g] \in {"loop_sleep", "failed_sleep"}}}
      \cup {guardUntil}
      \cup {pubGuardUntil}
      \cup (IF reportPc \in {"loop_sleep", "failed_sleep"} THEN {reportWakeAt} ELSE {})

\* a task that takes its next step before time passes: a round trip is
\* over by the time the guard is released, a due sleeper wakes, and the
\* other steps take no time
Ready(f) ==
    \/ pc[f] = "store"
    \/ pc[f] = "sweep" /\ CanRead
    \/ pc[f] = "post" /\ now >= guardUntil
    \/ pc[f] = "fetch" /\ now >= guardUntil
    \/ pc[f] = "failed_sleep" /\ now >= wakeAt[f]
    \/ pc[f] = "loop_sleep" /\ now >= wakeAt[f] /\ sweeps[f] < MaxSweeps

\* contexts.write() is granted whether or not a guard of read() is held
WriteReady_unlocked == adding.pc = "waiting"

\* contexts.write() is granted once no guard of read() is left
WriteReady == adding.pc = "waiting" /\ ReadGuards = {}

\* time, in seconds, passes until the next timer is due
\* the same for the report task: an upload is over by the time the
\* publisher's guard is released
ReportReady ==
    \/ reportPc \in {"gate", "data"}
    \/ reportPc \in {"upload", "uploading"} /\ now >= pubGuardUntil
    \/ reportPc \in {"loop_sleep", "failed_sleep"} /\ now >= reportWakeAt
                                                  /\ iterations < MaxReports

Tick ==
    /\ \A f \in Fetchers : ~Ready(f)
    /\ ~ReportReady
    /\ ~WriteReady
    /\ \E d \in Deadlines : d > now
    /\ now' = CHOOSE d \in Deadlines : d > now /\ \A e \in Deadlines : e > now => d <= e
    /\ UNCHANGED <<otherVars, db, op, offered, scrapeVars>>

Next ==
    \/ \E f \in Fetchers : BeginSweep(f)
    \/ \E f \in Fetchers : TimeGuard(f)
    \/ \E f \in Fetchers : FetchReturns(f)
    \/ \E f \in Fetchers : FetchFails(f)
    \/ \E f \in Fetchers : StoreReturns(f)
    \/ \E f \in Fetchers : StoreFails(f)
    \/ \E f \in Fetchers : WakeLoop(f)
    \/ \E f \in Fetchers : Restart(f)
    \/ Tick

Spec == Init /\ [][Next]_vars

\* both fetchers at work, and one call that fails
InitFaulty ==
    /\ db = [c \in Collections |-> {}]
    /\ now = 0
    /\ op = NoOp
    /\ offered = {}
    /\ Tasks("both", 1)
    /\ NoReader
    /\ NoReportTask

SpecFaulty == InitFaulty /\ [][Next]_vars

(***************************************************************************)
(* Store specification: the store operations called directly, as the      *)
(* tests of database.rs do, on the pages below: an absent list, an empty  *)
(* list, a page, a page that overlaps it (key 2, with other data) and a   *)
(* page that holds one natural key twice.                                  *)
(***************************************************************************)
Entry(k, a) == [key |-> k, alt |-> a, host |-> "none"]

TestPages ==
    { None,
      Some(<<>>),
      Some(<<Entry(1, FALSE), Entry(2, FALSE)>>),
      Some(<<Entry(2, TRUE), Entry(3, FALSE)>>),
      Some(<<Entry(1, FALSE), Entry(1, TRUE)>>) }

\* two contexts that differ in the network only
TestContexts == {c \in Context : c.stash = "alice"}

InitStore ==
    /\ db = [c \in Collections |-> {}]
    /\ now = 0
    /\ op = NoOp
    /\ offered = {}
    /\ Spawned("backfill")
    /\ NoReader
    /\ NoReportTask

StoreTransfers ==
    /\ op.n < MaxCalls
    /\ \E c \in TestContexts, p \in TestPages : \E f \in FailPoints(p) :
          DoStore("Transfer", c, p, f)
    /\ UNCHANGED <<otherVars, now, scrapeVars>>

StoreRewardSlashes ==
    /\ op.n < MaxCalls
    /\ \E c \in TestContexts, p \in TestPages : \E f \in FailPoints(p) :
          DoStore("RewardSlash", c, p, f)
    /\ UNCHANGED <<otherVars, now, scrapeVars>>

StoreNominations ==
    /\ op.n < MaxCalls
    /\ \E c \in TestContexts, p \in TestPages : \E f \in FailPoints(p) :
          DoStore("Nomination", c, p, f)
    /\ UNCHANGED <<otherVars, now, scrapeVars>>

ClockTick ==
    /\ now < MaxClock
    /\ now' = now + 1
    /\ UNCHANGED <<otherVars, db, op, offered, scrapeVars>>

NextStore == StoreTransfers \/ StoreRewardSlashes \/ StoreNominations \/ ClockTick

SpecStore == InitStore /\ [][NextStore]_vars

(***************************************************************************)
(* Properties of the store operations.                                     *)
(***************************************************************************)
\* a store call has just returned
Stored == op'.n # op.n

OnlyKind(kind) == \A t \in offered : t[1] = kind

\* C1: whatever store calls were made, a kind's collection holds at most one
\* record per (context_id, natural key); and after calls of one kind only,
\* the number of documents with context_id = c in that kind's collection is
\* the number of distinct natural keys an upsert was issued for under c
\* (all keys of the pages of the calls that returned Ok, and the keys before
\* the failing update_one of a call that returned Err).
DedupInvariant ==
    \A k \in Kinds, c \in Context :
        LET cid  == ContextId(c)
            docs == db[StoreCollection(k)] IN
        /\ \A d1, d2 \in RecordsOf(docs, k, cid) :
               d1.data.key = d2.data.key => d1 = d2
        /\ OnlyKind(k) =>
               Cardinality({d \in docs : d.context_id = cid})
                 = Cardinality({t \in offered : t[2] = cid})

\* two overlapping pages were stored under one context: three distinct keys
DedupWitness ==
    /\ op.n = 2 /\ op.ok /\ op.ret = 1 /\ OnlyKind("Transfer")
    /\ Cardinality({t \in offered : t[2] = ContextId(op.ctx)}) = 3
    /\ Cardinality(db[COLL_TRANSFER_RAW]) = 3

\* C2: a store call that returns Ok returns the number of natural keys of
\* its page that had no record under its context before the call; a call
\* that repeats the call before it (same kind, context and page, which
\* returned Ok) returns 0 and leaves every collection as it was.
ReturnsNewlyInserted ==
    [][ (Stored /\ op'.ok) =>
          LET docs == db[StoreCollection(op'.kind)] IN
          /\ op'.ret = Cardinality(PageKeys(op'.page)
                          \ KeysOf(docs, op'.kind, ContextId(op'.ctx)))
          /\ op'.rep => (op'.ret = 0 /\ db' = db) ]_vars

\* a non-empty page was stored Ok twice in a row and the second call returned 0
RepeatWitness ==
    op.rep /\ op.ok /\ op.ret = 0 /\ Len(op.page.list) = 2

\* C3: a store call under context B of a page whose keys all exist under
\* another context A and none under B returns the number of distinct keys
\* of the page and leaves a record under B for each; and no store call
\* changes the documents of a context other than its own.
ContextIsPartOfKey ==
    [][ Stored =>
          LET k     == op'.kind
              coll  == StoreCollection(k)
              B     == ContextId(op'.ctx)
              keys  == PageKeys(op'.page) IN
          /\ \A x \in Collections :
                {d \in db'[x] : d.context_id # B} = {d \in db[x] : d.context_id # B}
          /\ ( /\ op'.ok
               /\ keys \cap KeysOf(db[coll], k, B) = {}
               /\ \E c \in Context : /\ ContextId(c) # B
                                     /\ keys \subseteq KeysOf(db[coll], k, ContextId(c)) )
             => /\ op'.ret = Cardinality(keys)
                /\ keys \subseteq KeysOf(db'[coll], k, B) ]_vars

\* a page held under another context was stored under op.ctx and every
\* entry of it was newly inserted
OtherContextWitness ==
    /\ op.ok /\ op.ret = 2 /\ Cardinality(PageKeys(op.page)) = 2
    /\ \E c \in Context :
          /\ ContextId(c) # ContextId(op.ctx)
          /\ PageKeys(op.page) \subseteq
                KeysOf(db[StoreCollection(op.kind)], op.kind, ContextId(c))

\* C4: no step changes or removes a document that exists: its _id, context,
\* ingestion timestamp and data stay as first written.
RecordsNeverModified ==
    [][ \A x \in Collections : db[x] \subseteq db'[x] ]_vars

\* an entry was stored again, later and with other data, than its record
ReobservedWitness ==
    \E i \in 1..op.ran : \E d \in db[StoreCollection(op.kind)] :
        /\ d.kind = op.kind /\ d.context_id = ContextId(op.ctx)
        /\ d.data.key = op.page.list[i].key
        /\ d.data # op.page.list[i]
        /\ d.timestamp < op.at

\* C5: storeNominations adds no document to the collection fetchRewardsSlashes
\* reads, and storeRewardSlashes none to the one fetchNominations reads.
SeparateCollections ==
    [][ /\ (Stored /\ op'.kind = "Nomination") =>
              db'[FetchCollection("RewardSlash")] = db[FetchCollection("RewardSlash")]
        /\ (Stored /\ op'.kind = "RewardSlash") =>
              db'[FetchCollection("Nomination")] = db[FetchCollection("Nomination")] ]_vars

(***************************************************************************)
(* Claims about the scraping loop, checked under Spec.                     *)
(***************************************************************************)
\* fetcher f takes the step that ends a fetch or a store
Completes(f) == pc[f] \in {"post", "store"} /\ pc'[f] # pc[f]

\* fetcher f leaves its current account for the next one in the list
MovesOn(f) == idx'[f] = idx[f] + 1 /\ page'[f] = 1

\* C6: every persisted record carries, in its context_id, the network of the
\* explorer host the request that produced it was sent to
NetworkOfRecordIsNetworkOfHost ==
    \A c \in Collections : \A d \in db[c] :
        d.data.host # "none" => d.context_id.network = d.data.host

\* C7: a fetcher moves on from an account exactly when the fetch returned an
\* empty response, or the store returned 0, or the store returned fewer than
\* ROW_AMOUNT; and in each of the three cases it goes on with the loop (the
\* next account or the pause after the sweep), not to the restart path
PagingStops ==
    [][\A f \in Fetchers :
         Completes(f) =>
            LET fetched == pc[f] = "post" /\ pc'[f] # "failed_sleep"
                stored  == pc[f] = "store" /\ op'.n # op.n /\ op'.ok
                stops   == \/ fetched /\ is_empty(resp'[f])
                           \/ stored /\ op'.ret = 0
                           \/ stored /\ op'.ret < ROW_AMOUNT IN
            /\ MovesOn(f) <=> stops
            /\ stops => pc'[f] \in {"fetch", "loop_sleep"}]_vars

\* one fetcher has moved on for each of the three reasons
AllStopsWitness ==
    \E f \in Fetchers : reasons[f] = {"empty", "zero", "short"}

\* C8: a store that returns ROW_AMOUNT is followed by the fetch of the next
\* page of the same account; and when the fetcher moves on from an account
\* whose explorer history is k full pages and a shorter non-empty one, none
\* of it persisted when the visit began, it has issued k + 1 fetches for the
\* account and every entry of the history is persisted under the account
FullPagesThenShort ==
    [][\A f \in Fetchers :
         /\ (pc[f] = "store" /\ op'.n # op.n /\ op'.ok /\ op'.ret = ROW_AMOUNT)
               => /\ pc'[f] = "fetch"
                  /\ idx'[f] = idx[f]
                  /\ page'[f] = page[f] + 1
         /\ (Completes(f) /\ MovesOn(f))
               => LET context == contexts[idx[f]]
                      hist == History(chain, f, context.stash) IN
                  (visit[f].fresh /\ Len(hist) % ROW_AMOUNT # 0)
                     => /\ visit[f].fetches = (Len(hist) \div ROW_AMOUNT) + 1
                        /\ HistoryKeys(f, context) \subseteq
                              KeysOf(db'[StoreCollection(f)], f, ContextId(context))]_vars

\* C9: each request a fetcher issues is for the first account and page 1 (at
\* the start of a sweep), or for the next account of the list and page 1, or
\* for the same account and the next page, and then every entry of the
\* response to the page before has its record
FetchOrder ==
    [][\A f \in Fetchers :
         (pc[f] = "fetch" /\ pc'[f] = "post") =>
            LET prev == visit[f].prev
                cid  == ContextId(contexts[idx[f]]) IN
            \/ prev.idx = 0 /\ idx[f] = 1 /\ page[f] = 1
            \/ idx[f] = prev.idx + 1 /\ page[f] = 1
            \/ /\ idx[f] = prev.idx
               /\ page[f] = prev.page + 1
               /\ resp[f].some
               /\ \A i \in DOMAIN resp[f].list :
                     resp[f].list[i].key \in KeysOf(db[StoreCollection(f)], f, cid)]_vars

\* the second account is requested after both pages of the first were written
SecondAccountWitness ==
    /\ pc["Transfer"] = "post"
    /\ idx["Transfer"] = 2
    /\ Cardinality(RecordsOf(db[COLL_TRANSFER_RAW], "Transfer",
                             ContextId(contexts[1]))) = ROW_AMOUNT + 3

\* C10: a fetch or a store that returns an error sends the task to the sleep
\* of FAILED_TASK_SLEEP and nowhere else; the task leaves that sleep only
\* after FAILED_TASK_SLEEP seconds and only to start its loop again, which
\* begins with the first account and page 1; however many errors in a row
RestartsAfterError ==
    [][\A f \in Fetchers :
         /\ (Completes(f) /\ failures'[f].streak # 0)
               => /\ failures'[f].streak = failures[f].streak + 1
                  /\ pc'[f] = "failed_sleep"
         /\ (pc[f] = "store" /\ op'.n # op.n /\ ~op'.ok) => pc'[f] = "failed_sleep"
         /\ (pc[f] = "failed_sleep" /\ pc'[f] # "failed_sleep")
               => /\ pc'[f] = "sweep"
                  /\ page'[f] = 1
                  /\ now >= failures[f].at + FAILED_TASK_SLEEP
         /\ (pc[f] = "sweep" /\ pc'[f] # "sweep")
               => pc'[f] = "fetch" /\ idx'[f] = 1 /\ page'[f] = 1
         /\ pc[f] # "off" => pc'[f] # "off"]_vars

\* a task has started its loop again after two errors in a row
TwoErrorsWitness ==
    \E f \in Fetchers :
        /\ failures[f].streak = 2
        /\ pc[f] = "fetch" /\ idx[f] = 1 /\ page[f] = 1
        /\ now >= 2 * FAILED_TASK_SLEEP

(***************************************************************************)
(* Claims about the tasks side by side, checked under SpecFaulty.          *)
(***************************************************************************)
\* the records the fetcher g has persisted
PersistedBy(g, database) == {d \in database[StoreCollection(g)] : d.kind = g}

\* C11: the step in which a fetch or a store of one fetcher returns an
\* error, and the step in which that fetcher restarts, leave the account,
\* the page, the position and the records of every other fetcher as they
\* were; and a fetcher that waits for a free guard can take it whatever the
\* other is doing
ErrorStaysLocal ==
    [][\A f \in Fetchers : \A g \in Fetchers \ {f} :
         /\ (\/ Completes(f) /\ pc'[f] = "failed_sleep"
             \/ pc[f] = "failed_sleep" /\ pc'[f] # "failed_sleep")
               => /\ idx'[g] = idx[g]
                  /\ page'[g] = page[g]
                  /\ pc'[g] = pc[g]
                  /\ PersistedBy(g, db') = PersistedBy(g, db)
         /\ (pc[f] = "failed_sleep" /\ pc[g] = "fetch" /\ now >= guardUntil)
               => ENABLED TimeGuard(g)]_vars

\* while one fetcher sleeps after its error the other has fetched and stored
OtherGoesOnWitness ==
    \E f \in Fetchers : \E g \in Fetchers \ {f} :
        /\ pc[f] = "failed_sleep"
        /\ op.kind = g /\ op.ok /\ op.ret > 0
        /\ op.at > failures[f].at

(***************************************************************************)
(* Registration of the scraping modules, ScrapingService::run.             *)
(***************************************************************************)
\* every call registers the module and spawns a task
run_unchecked(registered, module) ==
    [ok |-> TRUE, running |-> registered \cup {module}]

\* `if self.running.contains(module) { return Err(..) }`,
\* `self.running.insert(module)`, run_fetcher, Ok(())
run(registered, module) ==
    IF module \in registered
    THEN [ok |-> FALSE, running |-> registered]
    ELSE [ok |-> TRUE, running |-> registered \cup {module}]

\* one call of ScrapingService::run
Run(module) ==
    LET r == run(running, module) IN
    /\ Len(calls) < MaxRuns
    /\ calls' = Append(calls, [module |-> module, ok |-> r.ok])
    /\ running' = r.running
    /\ IF r.ok
       THEN /\ spawned' = [spawned EXCEPT ![module] = @ + 1]
            /\ pc' = [f \in Fetchers |-> IF f = module THEN "sweep" ELSE pc[f]]
       ELSE UNCHANGED <<spawned, pc>>
    /\ UNCHANGED <<storeVars, contexts, chain, cache, guardUntil, idx, page,
                   resp, newly, wakeAt, sweeps, faults, visit, failures, reasons,
                   lastStart, reportVars, readerVars, adding>>

\* a new service: no module registered, no task
InitRegister ==
    /\ db = [c \in Collections |-> {}]
    /\ now = 0
    /\ op = NoOp
    /\ offered = {}
    /\ Tasks("unconfigured", 0)
    /\ NoReader
    /\ NoReportTask

NextRegister == \E module \in ScrapingModule : Run(module)

SpecRegister == InitRegister /\ [][NextRegister]_vars

\* C12: a call of run for a module that is registered returns the error and
\* changes neither the registered modules nor the tasks; a call for a module
\* that is not registered returns Ok, registers it and spawns one task for
\* it; so no module ever has more than one task
RegisteredOnce ==
    [][calls' # calls =>
         LET c == calls'[Len(calls')] IN
         /\ c.ok <=> c.module \notin running
         /\ ~c.ok => /\ running' = running
                     /\ spawned' = spawned
                     /\ pc' = pc
         /\ c.ok => /\ running' = running \cup {c.module}
                    /\ spawned' = [spawned EXCEPT ![c.module] = 1]
         /\ \A m \in ScrapingModule : spawned'[m] <= 1]_vars

\* a module was registered, and registering it again was refused
RefusedWitness ==
    \E i \in DOMAIN calls : \E j \in DOMAIN calls :
        /\ i < j
        /\ calls[i].module = calls[j].module
        /\ calls[i].ok /\ ~calls[j].ok
        /\ spawned[calls[i].module] = 1

(***************************************************************************)
(* Claims about the rate guards.                                           *)
(***************************************************************************)
\* fetcher f starts an explorer request
StartsRequest(f) == pc[f] = "fetch" /\ pc'[f] = "post"

\* C13: an explorer request starts REQUEST_TIMEOUT or more after the request
\* started before it, whichever task started that one and however it ended
RequestSpacing ==
    [][\A f \in Fetchers :
         StartsRequest(f) =>
            /\ lastStart' = now
            /\ lastStart >= 0 => now - lastStart >= REQUEST_TIMEOUT]_vars

\* a request started just REQUEST_TIMEOUT after one of the other task that
\* failed at once
SpacingAfterFailureWitness ==
    \E f \in Fetchers : \E g \in Fetchers \ {f} :
        /\ pc[f] = "failed_sleep"
        /\ pc[g] = "post"
        /\ lastStart = now
        /\ lastStart = failures[f].at + REQUEST_TIMEOUT

(***************************************************************************)
(* The transfer report: DatabaseReader::fetch_transfers and                *)
(* TransferReportGenerator::generate.  A text is a sequence of pieces: a   *)
(* header, a row (the formatted fields) or a line feed.                    *)
(***************************************************************************)
\* struct Transfer as the report reads it; amount is a string
TransferEvent(k, blk, ts, amt) ==
    [key |-> k, alt |-> FALSE, host |-> "polkadot", block_num |-> blk,
     block_timestamp |-> ts, amount |-> amt, from |-> "x", to |-> "y",
     success |-> TRUE]

\* ContextData<Transfer>, a document of raw_transfers
TransferRecord(id, context, ts, event) ==
    [id |-> id, kind |-> "Transfer", context_id |-> ContextId(context),
     timestamp |-> ts, data |-> event]

\* str::parse::<f64> on the amounts that occur
parse_f64(str) ==
    CASE str = "0" -> [ok |-> TRUE, val |-> 0]
      [] str = "5" -> [ok |-> TRUE, val |-> 5]
      [] str = "7" -> [ok |-> TRUE, val |-> 7]
      [] OTHER     -> [ok |-> FALSE, val |-> 0]

RECURSIVE SortByBlockDesc(_)
\* `$sort: {data.block_num: -1}`; records of one block in insertion order
SortByBlockDesc(S) ==
    IF S = {} THEN <<>>
    ELSE LET d == CHOOSE x \in S : \A y \in S :
                     \/ x.data.block_num > y.data.block_num
                     \/ x.data.block_num = y.data.block_num /\ x.id <= y.id
         IN <<d>> \o SortByBlockDesc(S \ {d})

\* the range taken without its bounds
fetch_transfers_exclusive(docs, ctxs, from, to) ==
    LET ids == {ContextId(ctxs[i]) : i \in DOMAIN ctxs}
    IN SortByBlockDesc({d \in docs :
           /\ d.context_id \in ids
           /\ d.data.block_timestamp > from
           /\ d.data.block_timestamp < to})

\* DatabaseReader::fetch_transfers
fetch_transfers(docs, ctxs, from, to) ==
    LET ids == {ContextId(ctxs[i]) : i \in DOMAIN ctxs}
    IN SortByBlockDesc({d \in docs :
           /\ d.context_id \in ids
           /\ d.data.block_timestamp >= from
           /\ d.data.block_timestamp <= to})

NewLine == [t |-> "nl", v |-> <<>>]

\* "Block Number,Block Timestamp,From,To,Amount,Extrinsic Index,Success"
HeaderAll == [t |-> "header_all", v |-> <<>>]

\* "Network,Address,Description,Amount"
HeaderSummary == [t |-> "header_summary", v |-> <<>>]

\* format!("{},{},{},{},{},{},{}\n", ..) without the line feed
RowAll(e) ==
    [t |-> "row", v |-> <<e.block_num, e.block_timestamp, e.from, e.to,
                          e.amount, e.key, e.success>>]

\* format!("{},{},{},{}\n", ..) without the line feed
RowSummary(context, amount) ==
    [t |-> "sum", v |-> <<context.network, context.stash, context.description,
                          amount>>]

\* a lookup that falls back on the first context of the list
find_context_or_first(ctxs, stash) ==
    LET hits == {i \in DOMAIN ctxs : ctxs[i].stash = stash} IN
    [some |-> TRUE,
     context |-> IF hits = {} THEN ctxs[1]
                 ELSE ctxs[CHOOSE i \in hits : \A j \in hits : i <= j]]

\* contexts.iter().find(|c| c.stash == entry.context_id.stash)
find_context(ctxs, stash) ==
    LET hits == {i \in DOMAIN ctxs : ctxs[i].stash = stash} IN
    IF hits = {} THEN [some |-> FALSE, context |-> Accounts[1]]
    ELSE [some |-> TRUE,
          context |-> ctxs[CHOOSE i \in hits : \A j \in hits : i <= j]]

\* the index of the first entry for which generate returns Err, 0 if none
FirstBad(ctxs, entries) ==
    LET bad == {i \in DOMAIN entries :
                   \/ ~find_context(ctxs, entries[i].context_id.stash).some
                   \/ ~parse_f64(entries[i].data.amount).ok} IN
    IF bad = {} THEN 0 ELSE CHOOSE i \in bad : \A j \in bad : i <= j

RECURSIVE raw_all_rows(_, _)
\* the rows pushed onto raw_all by the loop over the entries
raw_all_rows(entries, i) ==
    IF i > Len(entries) THEN <<>>
    ELSE <<RowAll(entries[i].data), NewLine>> \o raw_all_rows(entries, i + 1)

RECURSIVE SumAmounts(_, _, _, _)
\* `summary.entry(context).and_modify(|a| *a += amount).or_insert(amount)`
\* over the entries: the amount summed under one context
SumAmounts(ctxs, entries, context, i) ==
    IF i > Len(entries) THEN 0
    ELSE (IF find_context(ctxs, entries[i].context_id.stash).context = context
          THEN parse_f64(entries[i].data.amount).val ELSE 0)
         + SumAmounts(ctxs, entries, context, i + 1)

\* the keys of the HashMap `summary`
SummaryKeys(ctxs, entries) ==
    {find_context(ctxs, entries[i].context_id.stash).context : i \in DOMAIN entries}

\* the orders in which `for (context, amount) in summary` may iterate
SummaryOrders(ctxs, entries) ==
    LET keys == SummaryKeys(ctxs, entries) IN
    {o \in [1..Cardinality(keys) -> keys] :
        \A i \in DOMAIN o : \A j \in DOMAIN o : o[i] = o[j] => i = j}

RECURSIVE raw_summary_rows(_, _, _, _)
raw_summary_rows(ctxs, entries, order, i) ==
    IF i > Len(order) THEN <<>>
    ELSE <<RowSummary(order[i], SumAmounts(ctxs, entries, order[i], 1)), NewLine>>
         \o raw_summary_rows(ctxs, entries, order, i + 1)

\* the header of raw_all ends with a line feed
raw_all_lf(entries) == <<HeaderAll, NewLine>> \o raw_all_rows(entries, 1)

\* String::from("Block Number,..,Success") and the rows pushed onto it
raw_all(entries) == <<HeaderAll>> \o raw_all_rows(entries, 1)

\* String::from("Network,Address,Description,Amount\n") and its rows
raw_summary(ctxs, entries, order) ==
    <<HeaderSummary, NewLine>> \o raw_summary_rows(ctxs, entries, order, 1)

\* TransferReportGenerator::generate; order is the iteration order of the
\* HashMap
generate(ctxs, entries, order) ==
    IF entries = <<>> THEN [ok |-> TRUE, reports |-> <<>>]
    ELSE IF FirstBad(ctxs, entries) # 0 THEN [ok |-> FALSE, reports |-> <<>>]
    ELSE [ok |-> TRUE,
          reports |-> << [name |-> "All", text |-> raw_all(entries)],
                         [name |-> "Summary",
                          text |-> raw_summary(ctxs, entries, order)] >>]

RECURSIVE Lines(_)
\* the lines of a text, as str::lines gives them
Lines(text) ==
    IF text = <<>> THEN <<>>
    ELSE LET ends == {i \in DOMAIN text : text[i] = NewLine} IN
         IF ends = {} THEN <<text>>
         ELSE LET e == CHOOSE i \in ends : \A j \in ends : i <= j IN
              <<SubSeq(text, 1, e - 1)>> \o Lines(SubSeq(text, e + 1, Len(text)))

(***************************************************************************)
(* The report task (ReportGenerator::do_run).  reportPc is                 *)
(*        "gate"         about to call fetch_data                          *)
(*        "upload"       a report in hand, upload_data waits for the guard *)
(*        "uploading"    guard passed, upload_to_cloud_storage in flight   *)
(*        "loop_sleep"   sleep(LOOP_INTERVAL) at the end of an iteration   *)
(*        "failed_sleep" sleep(FAILED_TASK_SLEEP) after local returned Err *)
(*        "dead"         the task panicked                                 *)
(*        "off"          no report module is configured                    *)
(***************************************************************************)
\* Timestamp::sub: `self.0 - other.0` on u64; a debug build panics where a
\* release build wraps
timestamp_sub(a, b) ==
    IF a >= b THEN [panic |-> FALSE, val |-> a - b]
    ELSE IF build = "debug" THEN [panic |-> TRUE, val |-> 0]
    ELSE [panic |-> FALSE, val |-> (a - b + U64) % U64]

\* self.last_report.unwrap_or(Timestamp::from(0))
LastReport == IF last_report.some THEN last_report.at ELSE 0

\* `last_report < (now - Timestamp::from(self.report_range))`, on the
\* difference d
gate_le(last, d) == last <= d

gate(last, d) == last < d

\* the end of an iteration of local that uploads nothing
LoopSleep ==
    /\ reportPc' = "loop_sleep"
    /\ reportWakeAt' = now + LOOP_INTERVAL
    /\ pending' = <<>>

\* local returns Err: the spawned loop logs it and sleeps
FailedSleep ==
    /\ reportPc' = "failed_sleep"
    /\ reportWakeAt' = now + FAILED_TASK_SLEEP
    /\ pending' = <<>>

\* fetch_data, and generate on what it returned
FetchData ==
    /\ reportPc = "gate"
    /\ iterations' = iterations + 1
    /\ LET d == timestamp_sub(now, report_range) IN
       IF d.panic
       THEN /\ reportPc' = "dead"
            /\ UNCHANGED <<reportData, pending, reportWakeAt>>
       ELSE IF gate(LastReport, d.val)
       THEN LET data == fetch_transfers(db[COLL_TRANSFER_RAW], reportContexts,
                                        LastReport, now) IN
            /\ reportData' = data
            /\ \E order \in SummaryOrders(reportContexts, data) :
                  LET r == generate(reportContexts, data, order) IN
                  IF ~r.ok THEN FailedSleep
                  ELSE IF r.reports = <<>> THEN LoopSleep
                  ELSE /\ pending' = r.reports
                       /\ reportPc' = "upload"
                       /\ UNCHANGED reportWakeAt
       ELSE /\ LoopSleep
            /\ UNCHANGED reportData
    /\ UNCHANGED <<storeVars, scrapeVars, serviceVars, readerVars, lastStart,
                   reportContexts,
                   report_range, last_report, build, pubGuardUntil,
                   uploadFaults, uploaded>>

\* the publisher's guard waits for the explorer's guard as well
PublisherTimeGuard_shared ==
    /\ reportPc = "upload"
    /\ now >= pubGuardUntil
    /\ now >= guardUntil
    /\ pubGuardUntil' = now + PUBLISHER_REQUEST_TIMEOUT
    /\ reportPc' = "uploading"
    /\ UNCHANGED <<storeVars, scrapeVars, serviceVars, readerVars, lastStart,
                   reportContexts,
                   report_range, last_report, build, reportData, pending,
                   reportWakeAt, iterations, uploadFaults, uploaded>>

\* GoogleDrive::time_guard, called by upload_data
PublisherTimeGuard ==
    /\ reportPc = "upload"
    /\ now >= pubGuardUntil
    /\ pubGuardUntil' = now + PUBLISHER_REQUEST_TIMEOUT
    /\ reportPc' = "uploading"
    /\ UNCHANGED <<storeVars, scrapeVars, serviceVars, readerVars, lastStart,
                   reportContexts,
                   report_range, last_report, build, reportData, pending,
                   reportWakeAt, iterations, uploadFaults, uploaded>>

\* upload_to_cloud_storage returns Ok: the next report of the iteration,
\* or the sleep
UploadReturns ==
    /\ reportPc = "uploading"
    /\ uploaded' = Append(uploaded, [name |-> Head(pending).name,
                                     text |-> Head(pending).text,
                                     at |-> now, iteration |-> iterations])
    /\ IF Tail(pending) = <<>>
       THEN LoopSleep
       ELSE /\ pending' = Tail(pending)
            /\ reportPc' = "upload"
            /\ UNCHANGED reportWakeAt
    /\ UNCHANGED <<storeVars, scrapeVars, serviceVars, readerVars, lastStart,
                   reportContexts,
                   report_range, last_report, build, reportData, pubGuardUntil,
                   iterations, uploadFaults>>

\* the error of an upload is dropped and the for loop goes on
UploadFails_continue ==
    /\ reportPc = "uploading"
    /\ uploadFaults > 0
    /\ uploadFaults' = uploadFaults - 1
    /\ IF Tail(pending) = <<>>
       THEN LoopSleep
       ELSE /\ pending' = Tail(pending)
            /\ reportPc' = "upload"
            /\ UNCHANGED reportWakeAt
    /\ UNCHANGED <<storeVars, scrapeVars, serviceVars, readerVars, lastStart,
                   reportContexts, report_range, last_report, build, reportData,
                   pubGuardUntil, iterations, uploaded>>

\* upload_to_cloud_storage returns an error
UploadFails ==
    /\ reportPc = "uploading"
    /\ uploadFaults > 0
    /\ uploadFaults' = uploadFaults - 1
    /\ FailedSleep
    /\ UNCHANGED <<storeVars, scrapeVars, serviceVars, readerVars, lastStart,
                   reportContexts,
                   report_range, last_report, build, reportData, pubGuardUntil,
                   iterations, uploaded>>

\* either sleep is over: local runs its loop again, or is called again
ReportWake ==
    /\ reportPc \in {"loop_sleep", "failed_sleep"}
    /\ now >= reportWakeAt
    /\ iterations < MaxReports
    /\ reportPc' = "gate"
    /\ UNCHANGED <<storeVars, scrapeVars, serviceVars, readerVars, lastStart,
                   reportContexts,
                   report_range, last_report, build, reportData, pending,
                   pubGuardUntil, reportWakeAt, iterations, uploadFaults,
                   uploaded>>

\* the clock at the start, seconds since the epoch
Epoch == 1000

\* raw_transfers as earlier runs left it
TransferDocs ==
    { TransferRecord(1, Accounts[1], 900, TransferEvent(1, 10, 900, "5")),
      TransferRecord(2, Accounts[1], 950, TransferEvent(2, 12, 950, "7")),
      TransferRecord(3, Accounts[2], 1200, TransferEvent(3, 11, 1200, "5")) }

\* config.report.modules: report_range below, at and above the clock
ReportRanges == {400, 1000, 1300, 2000}

\* the report module configured next to the reward fetcher, over a
\* database with or without transfers
InitReport ==
    /\ db \in { [c \in Collections |-> {}],
                [c \in Collections |-> IF c = COLL_TRANSFER_RAW
                                       THEN TransferDocs ELSE {}] }
    /\ now = Epoch
    /\ op = NoOp
    /\ offered = {}
    /\ Tasks("rewards", 0)
    /\ NoReader
    /\ reportContexts = Accounts
    /\ report_range \in ReportRanges
    /\ last_report = NoTimestamp
    /\ build \in {"debug", "release"}
    /\ reportPc = "gate"
    /\ reportData = <<>>
    /\ pending = <<>>
    /\ pubGuardUntil = 0
    /\ reportWakeAt = 0
    /\ iterations = 0
    /\ uploadFaults \in {0, 1}
    /\ uploaded = <<>>

NextReport ==
    \/ \E f \in Fetchers : BeginSweep(f)
    \/ \E f \in Fetchers : TimeGuard(f)
    \/ \E f \in Fetchers : FetchReturns(f)
    \/ \E f \in Fetchers : StoreReturns(f)
    \/ \E f \in Fetchers : WakeLoop(f)
    \/ FetchData
    \/ PublisherTimeGuard
    \/ UploadReturns
    \/ UploadFails
    \/ ReportWake
    \/ Tick

SpecReport == InitReport /\ [][NextReport]_vars

(***************************************************************************)
(* Properties of the two rate guards.                                      *)
(***************************************************************************)
\* C14: each guard is held by at most one caller (a guard is acquired only
\* once the hold before it is over, and a step acquires one guard only),
\* and the guards are independent: a fetcher waiting for the explorer
\* guard passes as soon as that guard is free, and an upload waiting for
\* the publisher guard passes as soon as that guard is free, whatever the
\* state of the other guard.
GuardsExclusiveAndIndependent ==
    [][ /\ guardUntil' # guardUntil =>
              now >= guardUntil /\ pubGuardUntil' = pubGuardUntil
        /\ pubGuardUntil' # pubGuardUntil =>
              now >= pubGuardUntil /\ guardUntil' = guardUntil
        /\ \A f \in Fetchers :
              pc[f] = "fetch" /\ now >= guardUntil => ENABLED TimeGuard(f)
        /\ reportPc = "upload" /\ now >= pubGuardUntil =>
              ENABLED PublisherTimeGuard ]_vars

\* C14 witness: an upload and an explorer request in flight, each having
\* passed its guard while the other guard was held
BothGuardsHeldWitness ==
    /\ reportPc = "uploading"
    /\ \E f \in Fetchers : pc[f] = "post"
    /\ now < guardUntil
    /\ now < pubGuardUntil
    /\ lastStart = now

\* the steps of the task of fetcher f
TaskStep(f) ==
    \/ BeginSweep(f)
    \/ FetchReturns(f)
    \/ FetchFails(f)
    \/ StoreReturns(f)
    \/ StoreFails(f)
    \/ WakeLoop(f)
    \/ Restart(f)

\* time advances, the runtime polls every task that can take a step, and
\* the mutex of the guard serves its waiters in the order they arrived
Fairness ==
    /\ WF_vars(Tick)
    /\ \A f \in Fetchers : WF_vars(TaskStep(f))
    /\ \A f \in Fetchers : SF_vars(TimeGuard(f))

SpecQueue == InitFaulty /\ [][Next]_vars /\ Fairness

\* C15: every fetcher that waits for the rate guard eventually passes it
\* and starts its request, given that time advances and tasks are polled.
NoFetcherStarves ==
    \A f \in Fetchers : (pc[f] = "fetch") ~> (pc[f] = "post")

\* C15 witness: a fetcher has passed the guard after waiting for its
\* release, while the other fetcher, served before, queues behind it
QueuedThenServedWitness ==
    \E f \in Fetchers : \E g \in Fetchers \ {f} :
        /\ pc[f] = "post"
        /\ lastStart = now
        /\ now >= REQUEST_TIMEOUT
        /\ visit[g].fetches >= 1 \/ idx[g] > 1
        /\ pc[g] = "fetch"

(***************************************************************************)
(* The cache of the explorer client against the store.                     *)
(***************************************************************************)
\* C16: the cache never decides whether an event the explorer returned
\* ends up persisted: every entry the cache filter drops from a page
\* fetched for an account is already persisted under that account (the
\* scraper without the cache would hand it to the store, which would find
\* it there).
CacheDropsOnlyPersisted ==
    [][ \A f \in Fetchers :
          FetchReturns(f) =>
            LET context == contexts[idx[f]]
                raw == explorer_page(request_host(context), f, context.stash,
                                     ROW_AMOUNT, page[f]) IN
            \A i \in DOMAIN raw.list :
                raw.list[i].key \in cache[f] =>
                    raw.list[i].key \in KeysOf(db[StoreCollection(f)], f,
                                               ContextId(context)) ]_vars

(***************************************************************************)
(* Properties of the report task.                                          *)
(***************************************************************************)
\* C17: an iteration fetches and publishes if and only if
\* now - lastReport >= report_range: when the gate qualifies and the store
\* holds transfers of the range, the iteration goes on to upload the
\* reports made of them; when it does not qualify, the iteration uploads
\* nothing and sleeps LOOP_INTERVAL.
GateAtRange ==
    [][ FetchData =>
          LET qualifies == now - LastReport >= report_range
              inRange == fetch_transfers(db[COLL_TRANSFER_RAW], reportContexts,
                                         LastReport, now) IN
          /\ qualifies /\ inRange # <<>> =>
                 /\ reportPc' = "upload"
                 /\ reportData' = inRange
                 /\ pending' # <<>>
          /\ ~qualifies =>
                 /\ reportPc' = "loop_sleep"
                 /\ reportWakeAt' = now + LOOP_INTERVAL
                 /\ pending' = <<>>
                 /\ uploaded' = uploaded ]_vars

\* the times at which an iteration has uploaded its last report
Published == {uploaded[i].at : i \in {j \in DOMAIN uploaded : uploaded[j].name = "Summary"}}

\* C18: when the last report of an iteration is uploaded at time t,
\* last_report becomes t; an iteration that goes on to upload does so no
\* earlier than t + report_range after every publication at t, and the
\* data it reports on are later than t.
LastReportWrittenBack ==
    [][ /\ UploadReturns /\ Tail(pending) = <<>> =>
              last_report' = SomeTimestamp(now)
        /\ FetchData /\ reportPc' = "upload" =>
              \A t \in Published :
                 /\ now >= t + report_range
                 /\ \A i \in DOMAIN reportData' :
                       reportData'[i].data.block_timestamp > t ]_vars

(***************************************************************************)
(* Report specification: fetch_transfers and generate called once, as      *)
(* fetch_data and do_run::local call them, on every set of the transfers   *)
(* below and every account list below.  reportPc is "read" before          *)
(* fetch_transfers, "generate" before generate, then "generated" (Ok) or   *)
(* "failed" (Err).                                                         *)
(***************************************************************************)
AliceKusama == [stash |-> "alice", network |-> "kusama", description |-> ""]

\* transfers of three contexts; the amount of the last one is no number
TransferPool ==
    { TransferRecord(1, Accounts[1], 900, TransferEvent(1, 10, 900, "5")),
      TransferRecord(2, Accounts[1], 950, TransferEvent(2, 12, 950, "7")),
      TransferRecord(3, Accounts[2], 960, TransferEvent(3, 11, 960, "5")),
      TransferRecord(4, AliceKusama, 970, TransferEvent(4, 13, 970, "7")),
      TransferRecord(5, Accounts[2], 980, TransferEvent(5, 14, 980, "")) }

\* account lists: two stashes, one stash on two networks, one account
AccountLists == { Accounts, <<Accounts[1], AliceKusama>>, <<Accounts[1]>> }

InitGenerate ==
    /\ \E S \in SUBSET TransferPool :
          db = [c \in Collections |-> IF c = COLL_TRANSFER_RAW THEN S ELSE {}]
    /\ now = Epoch
    /\ op = NoOp
    /\ offered = {}
    /\ Tasks("unconfigured", 0)
    /\ NoReader
    /\ reportContexts \in AccountLists
    /\ report_range = 0
    /\ last_report = NoTimestamp
    /\ build = "release"
    /\ reportPc = "read"
    /\ reportData = <<>>
    /\ pending = <<>>
    /\ pubGuardUntil = 0
    /\ reportWakeAt = 0
    /\ iterations = 0
    /\ uploadFaults = 0
    /\ uploaded = <<>>

\* self.reader.fetch_transfers(contexts.as_slice(), last_report, now)
ReadTransfers ==
    /\ reportPc = "read"
    /\ reportData' = fetch_transfers(db[COLL_TRANSFER_RAW], reportContexts,
                                     LastReport, now)
    /\ reportPc' = "generate"
    /\ UNCHANGED <<storeVars, scrapeVars, serviceVars, readerVars, lastStart,
                   reportContexts,
                   report_range, last_report, build, pending, pubGuardUntil,
                   reportWakeAt, iterations, uploadFaults, uploaded>>

\* generator.generate(&data)
Generate ==
    /\ reportPc = "generate"
    /\ \E order \in SummaryOrders(reportContexts, reportData) :
          LET r == generate(reportContexts, reportData, order) IN
          /\ pending' = r.reports
          /\ reportPc' = IF r.ok THEN "generated" ELSE "failed"
    /\ UNCHANGED <<storeVars, scrapeVars, serviceVars, readerVars, lastStart,
                   reportContexts,
                   report_range, last_report, build, reportData, pubGuardUntil,
                   reportWakeAt, iterations, uploadFaults, uploaded>>

NextGenerate == ReadTransfers \/ Generate

SpecGenerate == InitGenerate /\ [][NextGenerate]_vars

\* C19: generate returns no artifact for an empty data set and otherwise
\* the per-event report followed by the summary; the lines of the
\* per-event report are the header and then one line per record, in the
\* order of the data set, which is by block number descending.
TwoArtifactsLinePerRecord ==
    reportPc = "generated" =>
        IF reportData = <<>> THEN pending = <<>>
        ELSE /\ Len(pending) = 2
             /\ pending[1].name = "All"
             /\ pending[2].name = "Summary"
             /\ Lines(pending[1].text)
                  = <<<<HeaderAll>>>>
                      \o [i \in 1..Len(reportData) |-> <<RowAll(reportData[i].data)>>]
             /\ \A i \in 1..Len(reportData) : \A j \in i..Len(reportData) :
                   reportData[i].data.block_num >= reportData[j].data.block_num

RECURSIVE AmountOf(_, _, _)
\* the sum of the amounts of the records of entries, from the i-th on,
\* whose context_id is cid
AmountOf(cid, entries, i) ==
    IF i > Len(entries) THEN 0
    ELSE (IF entries[i].context_id = cid
          THEN parse_f64(entries[i].data.amount).val ELSE 0)
         + AmountOf(cid, entries, i + 1)

\* the contexts of the account list that have a record in the data set
ContextsWithRecords ==
    {c \in {reportContexts[i] : i \in DOMAIN reportContexts} :
        \E i \in DOMAIN reportData : reportData[i].context_id = ContextId(c)}

\* C20: the summary is its header and exactly one row per context that has
\* a record in the data set, the row's amount being the sum of the amounts
\* of the records of that context.
SummaryRowPerContext ==
    reportPc = "generated" /\ reportData # <<>> =>
        LET lines == Lines(pending[2].text) IN
        /\ lines[1] = <<HeaderSummary>>
        /\ Len(lines) = 1 + Cardinality(ContextsWithRecords)
        /\ \A c \in ContextsWithRecords :
              \E k \in 2..Len(lines) :
                 lines[k] = <<RowSummary(c, AmountOf(ContextId(c), reportData, 1))>>

(***************************************************************************)
(* Iteration specification: do_run::local from the point where fetch_data  *)
(* has returned Some(data), for every set of the transfers of the pool as  *)
(* data and every account list; reportPc is "data" at that point.          *)
(***************************************************************************)
InitIteration ==
    /\ \E S \in SUBSET TransferPool :
          /\ db = [c \in Collections |-> IF c = COLL_TRANSFER_RAW THEN S ELSE {}]
          /\ reportData = SortByBlockDesc(S)
    /\ now = Epoch
    /\ op = NoOp
    /\ offered = {}
    /\ Tasks("unconfigured", 0)
    /\ NoReader
    /\ reportContexts \in AccountLists
    /\ report_range = 400
    /\ last_report = NoTimestamp
    /\ build = "release"
    /\ reportPc = "data"
    /\ pending = <<>>
    /\ pubGuardUntil = 0
    /\ reportWakeAt = 0
    /\ iterations = 1
    /\ uploadFaults \in {0, 1}
    /\ uploaded = <<>>

\* `for report in generator.generate(&data).await?`: the reports to
\* upload, the sleep when there is none, or the Err that leaves local
GenerateReports ==
    /\ reportPc = "data"
    /\ \E order \in SummaryOrders(reportContexts, reportData) :
          LET r == generate(reportContexts, reportData, order) IN
          IF ~r.ok THEN FailedSleep
          ELSE IF r.reports = <<>> THEN LoopSleep
          ELSE /\ pending' = r.reports
               /\ reportPc' = "upload"
               /\ UNCHANGED reportWakeAt
    /\ UNCHANGED <<storeVars, scrapeVars, serviceVars, readerVars, lastStart,
                   reportContexts,
                   report_range, last_report, build, reportData, pubGuardUntil,
                   iterations, uploadFaults, uploaded>>

NextIteration ==
    \/ GenerateReports
    \/ PublisherTimeGuard
    \/ UploadReturns
    \/ UploadFails
    \/ ReportWake
    \/ FetchData
    \/ Tick

SpecIteration == InitIteration /\ [][NextIteration]_vars

\* a record of the data set whose stash is the stash of no context
Unresolved ==
    \E i \in DOMAIN reportData : \A j \in DOMAIN reportContexts :
        reportContexts[j].stash # reportData[i].context_id.stash

\* C21: when a record of the data set has a stash that matches no context,
\* generate returns an error: the iteration uploads nothing, the task
\* sleeps FAILED_TASK_SLEEP and then calls local again.
UnresolvedStashRestarts ==
    [][ /\ GenerateReports /\ Unresolved =>
              /\ reportPc' = "failed_sleep"
              /\ reportWakeAt' = now + FAILED_TASK_SLEEP
              /\ pending' = <<>>
              /\ uploaded' = uploaded
        /\ reportPc = "failed_sleep" /\ reportPc' # "failed_sleep" =>
              /\ now >= reportWakeAt
              /\ reportPc' = "gate" ]_vars

\* C21 witness: the task is back at the start of local, FAILED_TASK_SLEEP
\* after generate failed on an unresolved stash, with nothing uploaded
UnresolvedRestartedWitness ==
    /\ Unresolved
    /\ \A i \in DOMAIN reportData : parse_f64(reportData[i].data.amount).ok
    /\ reportPc = "gate"
    /\ iterations = 1
    /\ now = Epoch + FAILED_TASK_SLEEP
    /\ uploaded = <<>>

(***************************************************************************)
(* The fetch operations of DatabaseReader.  A filter on a field selects    *)
(* the documents that have the field with a matching value; the driver     *)
(* compares values as BSON, where a string and a document are never equal. *)
(***************************************************************************)
\* struct RewardSlash as the reader filters it
RewardSlashEvent(k, blk) ==
    [key |-> k, alt |-> FALSE, host |-> "polkadot", block_num |-> blk]

\* ContextData<RewardSlash>, a document of raw_rewards_slashes
RewardSlashRecord(id, context, ts, event) ==
    [id |-> id, kind |-> "RewardSlash", context_id |-> ContextId(context),
     timestamp |-> ts, data |-> event]

\* ContextId::to_bson: a document
BsonOfContextId(cid) ==
    [t |-> "document", stash |-> cid.stash, network |-> cid.network]

\* str::to_bson of Context::as_str, the stash: a string
BsonOfStash(context) ==
    [t |-> "string", stash |-> context.stash, network |-> ""]

RECURSIVE NaturalOrder(_)
\* the order of a cursor without $sort: the order of insertion
NaturalOrder(S) ==
    IF S = {} THEN <<>>
    ELSE LET d == CHOOSE x \in S : \A y \in S : x.id <= y.id
         IN <<d>> \o NaturalOrder(S \ {d})

\* DatabaseReader::fetch_rewards_slashes
fetch_rewards_slashes(docs, ctxs, from, to) ==
    LET ids == {BsonOfContextId(ContextId(ctxs[i])) : i \in DOMAIN ctxs}
    IN NaturalOrder({d \in docs :
           /\ BsonOfContextId(d.context_id) \in ids
           /\ "block_num" \in DOMAIN d.data
           /\ d.data.block_num >= from
           /\ d.data.block_num <= to})

\* the filter on the ids of the contexts, as the other two fetches have it
fetch_nominations_by_id(docs, ctxs) ==
    LET ids == {BsonOfContextId(ContextId(ctxs[i])) : i \in DOMAIN ctxs}
    IN NaturalOrder({d \in docs : BsonOfContextId(d.context_id) \in ids})

\* DatabaseReader::fetch_nominations:
\* `"context_id": {"$in": contexts.iter().map(|c| c.as_str())}`
fetch_nominations(docs, ctxs) ==
    LET strs == {BsonOfStash(ctxs[i]) : i \in DOMAIN ctxs}
    IN NaturalOrder({d \in docs : BsonOfContextId(d.context_id) \in strs})

\* raw_rewards_slashes as earlier runs left it: no reward of alice on kusama
RewardPool ==
    { RewardSlashRecord(11, Accounts[1], 900, RewardSlashEvent(11, 10)),
      RewardSlashRecord(12, Accounts[1], 950, RewardSlashEvent(12, 20)),
      RewardSlashRecord(13, Accounts[2], 960, RewardSlashEvent(13, 30)) }

\* the `from` and `to` of the calls, on and off the stored values
TimestampsFrom == {0, 900, 990}
TimestampsTo == {950, 960, 1000}
BlocksFrom == {0, 10}
BlocksTo == {20, 40}

\* bob on polkadot: a context nothing is stored for
BobPolkadot == [stash |-> "bob", network |-> "polkadot", description |-> ""]

\* the account lists the fetch operations are called with
FetchLists == AccountLists \cup {<<Accounts[1], BobPolkadot>>}

InitFetch ==
    /\ db = [c \in Collections |-> IF c = COLL_TRANSFER_RAW THEN TransferPool
                                   ELSE RewardPool]
    /\ now = Epoch
    /\ op = NoOp
    /\ offered = {}
    /\ Tasks("unconfigured", 0)
    /\ NoReportTask
    /\ NoReader

FetchTransfers ==
    /\ \E ctxs \in FetchLists, from \in TimestampsFrom, to \in TimestampsTo :
          query' = [call |-> "fetch_transfers", contexts |-> ctxs,
                    from |-> from, to |-> to,
                    result |-> fetch_transfers(db[FetchCollection("Transfer")],
                                               ctxs, from, to)]
    /\ UNCHANGED <<storeVars, scrapeVars, serviceVars, lastStart, reportVars,
                   report_state, cp>>

FetchRewardsSlashes ==
    /\ \E ctxs \in FetchLists, from \in BlocksFrom, to \in BlocksTo :
          query' = [call |-> "fetch_rewards_slashes", contexts |-> ctxs,
                    from |-> from, to |-> to,
                    result |-> fetch_rewards_slashes(
                                   db[FetchCollection("RewardSlash")],
                                   ctxs, from, to)]
    /\ UNCHANGED <<storeVars, scrapeVars, serviceVars, lastStart, reportVars,
                   report_state, cp>>

FetchNominations ==
    /\ \E ctxs \in FetchLists :
          query' = [call |-> "fetch_nominations", contexts |-> ctxs,
                    from |-> 0, to |-> 0,
                    result |-> fetch_nominations(
                                   db[FetchCollection("Nomination")], ctxs)]
    /\ UNCHANGED <<storeVars, scrapeVars, serviceVars, lastStart, reportVars,
                   report_state, cp>>

NextFetch ==
    \/ StoreNominations
    \/ FetchTransfers
    \/ FetchRewardsSlashes
    \/ FetchNominations

SpecFetch == InitFetch /\ [][NextFetch]_vars

\* the documents a call returned
Returned == {query.result[i] : i \in DOMAIN query.result}

\* the ids of the contexts a call was made with
Asked == {ContextId(query.contexts[i]) : i \in DOMAIN query.contexts}

\* C22: fetch_transfers returns exactly the stored transfers whose
\* context_id is one of the contexts' and whose block_timestamp is within
\* from and to, both included; fetch_rewards_slashes does the same for the
\* stored rewards and slashes on block_num; each record is returned once.
FetchInRange ==
    /\ query.call = "fetch_transfers" =>
          /\ Returned = {d \in db[COLL_TRANSFER_RAW] :
                           /\ d.kind = "Transfer"
                           /\ d.context_id \in Asked
                           /\ query.from <= d.data.block_timestamp
                           /\ d.data.block_timestamp <= query.to}
          /\ Cardinality(Returned) = Len(query.result)
    /\ query.call = "fetch_rewards_slashes" =>
          /\ Returned = {d \in db[COLL_REWARD_SLASH_RAW] :
                           /\ d.kind = "RewardSlash"
                           /\ d.context_id \in Asked
                           /\ query.from <= d.data.block_num
                           /\ d.data.block_num <= query.to}
          /\ Cardinality(Returned) = Len(query.result)

\* C22 witness: a call of fetch_transfers for two contexts, one of them
\* without transfers, has returned a record at each bound
BothBoundsWitness ==
    /\ query.call = "fetch_transfers"
    /\ query.contexts = <<Accounts[1], BobPolkadot>>
    /\ \E d \in Returned : d.data.block_timestamp = query.from
    /\ \E d \in Returned : d.data.block_timestamp = query.to
    /\ \E c \in Asked : \A d \in Returned : d.context_id # c

\* C23: fetch_nominations returns exactly the nominations stored, at the
\* time of the call, for the contexts it is called with: every one of
\* them and nothing else.
NominationsOfContexts ==
    [][ FetchNominations =>
          {query'.result[i] : i \in DOMAIN query'.result}
            = {d \in db[COLL_NOMINATIONS_RAW] :
                  /\ d.kind = "Nomination"
                  /\ d.context_id \in {ContextId(query'.contexts[i]) :
                                          i \in DOMAIN query'.contexts}} ]_vars

\* C24: a failed upload ends the iteration at once: the reports still
\* pending are dropped and nothing more is uploaded, the task sleeps
\* FAILED_TASK_SLEEP and then starts local anew (it is never left without
\* a next step), and the step changes nothing another task reads: the
\* store, the account lists, the two guards and the fetcher tasks.
UploadFailureRestarts ==
    [][ /\ UploadFails =>
              /\ reportPc' = "failed_sleep"
              /\ reportWakeAt' = now + FAILED_TASK_SLEEP
              /\ pending' = <<>>
              /\ uploaded' = uploaded
              /\ UNCHANGED <<storeVars, scrapeVars, reportContexts,
                             pubGuardUntil>>
        /\ reportPc = "failed_sleep" =>
              /\ reportPc' \in {"failed_sleep", "gate"}
              /\ reportPc' = "gate" => now >= reportWakeAt
              /\ uploaded' = uploaded
              /\ now >= reportWakeAt /\ iterations < MaxReports
                    => ENABLED ReportWake ]_vars

\* C24 witness: the upload of the summary failed after the per-event
\* report was uploaded, and the task is back at the start of local with
\* the summary never uploaded
SummaryDroppedWitness ==
    /\ reportPc = "gate"
    /\ iterations = 1
    /\ Len(uploaded) = 1
    /\ uploaded[1].name = "All"
    /\ now >= Epoch + FAILED_TASK_SLEEP
    /\ \E f \in Fetchers : pc[f] # "off"

(***************************************************************************)
(* DatabaseReader::fetch_checkpoint_offset.  A date is <<year, month,      *)
(* day>> as OccurrenceIndex stores it; chrono's Utc.ymd panics on a date   *)
(* that does not exist.  cp[g].pc is                                       *)
(*        "find"   the call has begun, find_one is to be awaited           *)
(*        "found"  find_one has returned cp[g].doc                         *)
(*        "done"   the call is over: cp[g].ret is Ok, Err or a panic       *)
(*        "off"    no call                                                 *)
(***************************************************************************)
IsLeapYear(y) == (y % 4 = 0 /\ y % 100 # 0) \/ y % 400 = 0

DaysInMonth(y, m) ==
    CASE m \in {1, 3, 5, 7, 8, 10, 12} -> 31
      [] m \in {4, 6, 9, 11} -> 30
      [] m = 2 -> IF IsLeapYear(y) THEN 29 ELSE 28
      [] OTHER -> 0

\* whether TimeZone::ymd_opt gives a date
IsDate(date) ==
    /\ date[2] \in 1..12
    /\ date[3] >= 1
    /\ date[3] <= DaysInMonth(date[1], date[2])

RECURSIVE DaysBeforeMonth(_, _)
DaysBeforeMonth(y, m) ==
    IF m <= 1 THEN 0 ELSE DaysInMonth(y, m - 1) + DaysBeforeMonth(y, m - 1)

\* the days from 0001-01-01 to the date (proleptic Gregorian calendar)
DayNumber(date) ==
    LET y == date[1] - 1 IN
    365 * y + (y \div 4) - (y \div 100) + (y \div 400)
        + DaysBeforeMonth(date[1], date[2]) + date[3] - 1

\* i64 division: the quotient truncated toward zero
TruncDiv(a, b) == IF a >= 0 THEN a \div b ELSE -((-a) \div b)

\* the quotient rounded down
FloorDiv(a, b) == IF a >= 0 THEN a \div b ELSE -((-a + b - 1) \div b)

\* `now`: Utc.ymd(2021, 6, 22) under cfg(test), yesterday otherwise
ReferenceDay == <<2021, 6, 22>>

\* now.signed_duration_since(then).num_days()
num_days(then) == DayNumber(ReferenceDay) - DayNumber(then)

\* num_days, num_weeks, num_days / 31 of the duration since `then`, with
\* every quotient rounded down
offset_floor(occurrence, then) ==
    CASE occurrence = "Daily"   -> num_days(then)
      [] occurrence = "Weekly"  -> FloorDiv(num_days(then), 7)
      [] occurrence = "Monthly" -> FloorDiv(num_days(then), 31)

\* the match on occurrence: num_days, num_weeks, num_days / 31
offset(occurrence, then) ==
    CASE occurrence = "Daily"   -> num_days(then)
      [] occurrence = "Weekly"  -> TruncDiv(num_days(then), 7)
      [] occurrence = "Monthly" -> TruncDiv(num_days(then), 31)

Ok(v) == [kind |-> "ok", val |-> v]

Err == [kind |-> "err", val |-> 0]

Panic == [kind |-> "panic", val |-> 0]

\* Utc.ymd(..) of the date, the offset, `if offset < 0 { return Err }`
offset_since(occurrence, then) ==
    IF ~IsDate(then) THEN Panic
    ELSE IF offset(occurrence, then) < 0 THEN Err
    ELSE Ok(offset(occurrence, then))

\* `let then = Utc.ymd(1971, 0, 0)`
DistantPast == <<1971, 0, 0>>

\* ReportModuleId: the module of each generator
ModuleIds == {"transfers", "rewards_slashes"}

ModuleOf(g) == IF g = "g1" THEN "transfers" ELSE "rewards_slashes"

\* struct OccurrenceIndex, or no entry in Checkpoints::indexes
NoIndex == [some |-> FALSE, daily |-> <<0, 0, 0>>, weekly |-> <<0, 0, 0>>,
            monthly |-> <<0, 0, 0>>]

OccurrenceIndex(date) ==
    [some |-> TRUE, daily |-> date, weekly |-> date, monthly |-> date]

\* Checkpoints::default(), with the _id insert_one gives it
DefaultCheckpoints(id) ==
    [id |-> id, ty |-> "checkpoints", indexes |-> [m \in ModuleIds |-> NoIndex]]

\* the date of an index for an occurrence
IndexDate(index, occurrence) ==
    CASE occurrence = "Daily"   -> index.daily
      [] occurrence = "Weekly"  -> index.weekly
      [] occurrence = "Monthly" -> index.monthly

\* the document with the given _id
DocOf(id) == CHOOSE d \in report_state : d.id = id

\* coll.find_one(doc! {"type": "checkpoints"}): the first such document
find_one(docs) ==
    LET hits == {d \in docs : d.ty = "checkpoints"} IN
    IF hits = {} THEN [some |-> FALSE, id |-> 0]
    ELSE [some |-> TRUE,
          id |-> (CHOOSE d \in hits : \A e \in hits : d.id <= e.id).id]

\* fetch_checkpoint_offset is called
BeginOffset(g) ==
    /\ cp[g].pc = "off"
    /\ \E occurrence \in Occurrences :
          cp' = [cp EXCEPT ![g] = [NoCall EXCEPT !.pc = "find",
                                                 !.occurrence = occurrence]]
    /\ UNCHANGED <<storeVars, scrapeVars, serviceVars, lastStart, reportVars,
                   query, report_state>>

\* find_one returns
FindCheckpoints(g) ==
    /\ cp[g].pc = "find"
    /\ cp' = [cp EXCEPT ![g].pc = "found", ![g].doc = find_one(report_state)]
    /\ UNCHANGED <<storeVars, scrapeVars, serviceVars, lastStart, reportVars,
                   query, report_state>>

\* `else { coll.insert_one(Checkpoints::default(), None).await?; }`
insert_default(docs, found) ==
    IF found.some THEN docs
    ELSE docs \cup {DefaultCheckpoints(Cardinality(docs) + 1)}

\* the rest of the call: the offset from the index of the module, or the
\* insertion of the default document and the offset from the distant past
ReturnOffset(g) ==
    /\ cp[g].pc = "found"
    /\ LET index == IF cp[g].doc.some
                    THEN DocOf(cp[g].doc.id).indexes[ModuleOf(g)]
                    ELSE NoIndex
           ret == IF index.some
                  THEN offset_since(cp[g].occurrence,
                                    IndexDate(index, cp[g].occurrence))
                  ELSE offset_since(cp[g].occurrence, DistantPast) IN
       /\ cp' = [cp EXCEPT ![g].pc = "done", ![g].ret = ret]
       /\ report_state' = insert_default(report_state, cp[g].doc)
    /\ UNCHANGED <<storeVars, scrapeVars, serviceVars, lastStart, reportVars,
                   query>>

\* the dates a stored index may hold: on, before and after the reference
\* day, a leap day, the default index and a day that does not exist
StoredDates ==
    { <<2021, 6, 22>>, <<2021, 6, 21>>, <<2021, 6, 16>>, <<2021, 6, 15>>,
      <<2021, 5, 23>>, <<2021, 5, 22>>, <<2020, 6, 22>>, <<2020, 2, 29>>,
      <<2021, 6, 25>>, <<2021, 6, 30>>, <<2021, 7, 30>>,
      <<0, 0, 0>>, <<2021, 2, 29>> }

\* report_state empty, or holding the document with an index for the
\* transfers module
InitCheckpoint ==
    /\ db = [c \in Collections |-> {}]
    /\ now = Epoch
    /\ op = NoOp
    /\ offered = {}
    /\ Tasks("unconfigured", 0)
    /\ NoReportTask
    /\ query = NoQuery
    /\ \/ report_state = {}
       \/ \E date \in StoredDates :
             report_state = {[DefaultCheckpoints(1) EXCEPT
                                 !.indexes["transfers"] = OccurrenceIndex(date)]}
    /\ cp = [g \in Generators |-> NoCall]

NextCheckpoint ==
    \/ \E g \in Generators : BeginOffset(g)
    \/ \E g \in Generators : FindCheckpoints(g)
    \/ \E g \in Generators : ReturnOffset(g)

SpecCheckpoint == InitCheckpoint /\ [][NextCheckpoint]_vars

\* the index the call of g found for its module
FoundIndex(g) ==
    IF cp[g].doc.some THEN DocOf(cp[g].doc.id).indexes[ModuleOf(g)] ELSE NoIndex

\* C25: for a stored boundary d that is a date, the call returns the days
\* from d to the reference day (Daily), that number divided by 7 (Weekly)
\* or by 31 (Monthly), rounded down; when that is negative, which it is
\* exactly when d is after the reference day, it returns an error.
CheckpointOffsetValue ==
    \A g \in Generators :
        (cp[g].pc = "done" /\ FoundIndex(g).some
           /\ IsDate(IndexDate(FoundIndex(g), cp[g].occurrence))) =>
        LET d == IndexDate(FoundIndex(g), cp[g].occurrence)
            expected == offset_floor(cp[g].occurrence, d) IN
        /\ expected < 0 <=> DayNumber(d) > DayNumber(ReferenceDay)
        /\ cp[g].ret = IF expected < 0 THEN Err ELSE Ok(expected)

\* C26: when no checkpoint is stored for the module, the call succeeds
\* with the offset from a distant past date, a positive number.
NoCheckpointSucceeds ==
    \A g \in Generators :
        (cp[g].pc = "done" /\ ~FoundIndex(g).some) =>
            cp[g].ret.kind = "ok" /\ cp[g].ret.val > 0

\* C27: report_state holds at most one checkpoint document.
SingletonCheckpoint == Cardinality(report_state) <= 1

(***************************************************************************)
(* The account list of the scraping service and its lock:                  *)
(* ScrapingService::add_contexts called while the fetchers run.            *)
(*   adding.pc = "none"     add_contexts has not been called               *)
(*               "waiting"  the call awaits contexts.write()               *)
(*               "done"     the call has appended its argument             *)
(***************************************************************************)
\* the lists add_contexts is called with
AddedLists == {<<BobPolkadot>>, <<AliceKusama, BobPolkadot>>}

\* add_contexts is called: `self.contexts.write().await`
AddContexts ==
    /\ adding.pc = "none"
    /\ \E list \in AddedLists :
          adding' = [pc |-> "waiting", list |-> list, during |-> ReadGuards]
    /\ UNCHANGED <<storeVars, scrapeVars, running, spawned, calls, lastStart,
                   reportVars, readerVars>>

\* the write guard is granted: `.append(&mut contexts)`
AppendContexts ==
    /\ WriteReady
    /\ contexts' = contexts \o adding.list
    /\ adding' = [adding EXCEPT !.pc = "done"]
    /\ UNCHANGED <<storeVars, chain, cache, guardUntil, pc, idx, page, resp,
                   newly, wakeAt, sweeps, faults, visit, failures, reasons,
                   running, spawned, calls, lastStart, reportVars, readerVars>>

\* both fetchers at work, no call that fails
InitContexts ==
    /\ db = [c \in Collections |-> {}]
    /\ now = 0
    /\ op = NoOp
    /\ offered = {}
    /\ Tasks("both", 0)
    /\ NoReader
    /\ NoReportTask

NextContexts ==
    \/ \E f \in Fetchers : BeginSweep(f)
    \/ \E f \in Fetchers : TimeGuard(f)
    \/ \E f \in Fetchers : FetchReturns(f)
    \/ \E f \in Fetchers : StoreReturns(f)
    \/ \E f \in Fetchers : WakeLoop(f)
    \/ AddContexts
    \/ AppendContexts
    \/ Tick

SpecContexts == InitContexts /\ [][NextContexts]_vars

\* C28: while a fetcher is within a sweep (from the first fetch of the sweep
\* to the end of its last store) the account list does not change, so that
\* an add_contexts called during a sweep appends only when every fetcher
\* that was sweeping has left its sweep; a sweep starts at the first
\* account, goes from one account to the next, and ends just past the last account of the list it started with; a
\* fetcher in its LOOP_INTERVAL sleep holds no read guard.
SweepHoldsReadLock ==
    [][ /\ ReadGuards # {} => contexts' = contexts
        /\ contexts' # contexts => \A f \in adding.during : f \notin ReadGuards
        /\ \A f \in Fetchers :
            /\ (f \notin ReadGuards /\ f \in ReadGuards') => idx'[f] = 1
            /\ (f \in ReadGuards /\ f \in ReadGuards') =>
                  /\ idx'[f] \in {idx[f], idx[f] + 1}
                  /\ idx'[f] \in 1..Len(contexts)
            /\ (f \in ReadGuards /\ pc'[f] = "loop_sleep") =>
                  idx'[f] = Len(contexts) + 1
            /\ pc[f] = "loop_sleep" => f \notin ReadGuards
      ]_vars

\* C28 witness: add_contexts was called while a fetcher was sweeping, its
\* list has been appended, and a later sweep has reached an added account
AddedDuringSweepWitness ==
    /\ adding.pc = "done"
    /\ adding.during # {}
    /\ Len(contexts) > Len(Accounts)
    /\ \E f \in adding.during : f \in ReadGuards /\ idx[f] > Len(Accounts)

(***************************************************************************)
(* The report of rewards and slashes, RewardSlashReportGenerator:          *)
(* fetch_data and generate called once on every set of the records below.  *)
(* An amount is kept as the number parsed and the power of ten it is       *)
(* divided by; zero divided by any power is zero.                          *)
(***************************************************************************)
\* i64::MAX as far as the integers of the model reach: above every block
I64_MAX == 2147483647

\* struct RewardSlash with the fields generate reads
RewardSlashAmount(k, blk, event_id, amount) ==
    [key |-> k, alt |-> FALSE, host |-> "polkadot", block_num |-> blk,
     event_id |-> event_id, amount |-> amount]

Zero == [num |-> 0, exp |-> 0]

\* `amount / 1_000_000_000_000.0` (Kusama), `amount / 10_000_000_000.0`
\* (Polkadot)
scale(network, val) ==
    IF val = 0 THEN Zero
    ELSE [num |-> val, exp |-> IF network = "kusama" THEN 12 ELSE 10]

\* f64 addition of two amounts of one network
add(a, b) ==
    IF a = Zero THEN b ELSE IF b = Zero THEN a
    ELSE [num |-> a.num + b.num, exp |-> a.exp]

\* match data.event_id.as_str(): Some(true) for "Reward", Some(false) for
\* "Slash", an error otherwise
event_kind(event_id) ==
    CASE event_id = "Reward" -> [ok |-> TRUE, reward |-> TRUE]
      [] event_id = "Slash"  -> [ok |-> TRUE, reward |-> FALSE]
      [] OTHER               -> [ok |-> FALSE, reward |-> FALSE]

\* "Network,Block Number,Address,Description,Event,Value"
HeaderRewardAll == [t |-> "header_reward_all", v |-> <<>>]

\* "Network,Address,Description,Reward,Slash"
HeaderRewardSummary == [t |-> "header_reward_summary", v |-> <<>>]

\* the amount of an entry as generate prints it
entry_amount(ctxs, entry) ==
    scale(find_context(ctxs, entry.context_id.stash).context.network,
          parse_f64(entry.data.amount).val)

\* format!("{},{},{},{},{},{}\n", ..) without the line feed
RowRewardAll(ctxs, entry) ==
    LET context == find_context(ctxs, entry.context_id.stash).context IN
    [t |-> "row", v |-> <<context.network, entry.data.block_num, context.stash,
                          context.description, entry.data.event_id,
                          entry_amount(ctxs, entry)>>]

\* format!("{},{},{},{},{}\n", ..) without the line feed
RowRewardSummary(context, reward, slash) ==
    [t |-> "sum", v |-> <<context.network, context.stash, context.description,
                          reward, slash>>]

\* the index of the first entry for which generate returns Err, 0 if none
FirstBadReward(ctxs, entries) ==
    LET bad == {i \in DOMAIN entries :
                   \/ ~find_context(ctxs, entries[i].context_id.stash).some
                   \/ ~parse_f64(entries[i].data.amount).ok
                   \/ ~event_kind(entries[i].data.event_id).ok} IN
    IF bad = {} THEN 0 ELSE CHOOSE i \in bad : \A j \in bad : i <= j

RECURSIVE reward_all_rows(_, _, _)
\* the rows pushed onto raw_all by the loop over the entries
reward_all_rows(ctxs, entries, i) ==
    IF i > Len(entries) THEN <<>>
    ELSE <<RowRewardAll(ctxs, entries[i]), NewLine>>
         \o reward_all_rows(ctxs, entries, i + 1)

RECURSIVE SumRewards(_, _, _, _, _)
\* summary.entry(context).and_modify(..).or_insert(..) over the entries:
\* the rewards (reward = TRUE) or the slashes summed under one context
SumRewards(ctxs, entries, context, reward, i) ==
    IF i > Len(entries) THEN Zero
    ELSE add(IF /\ find_context(ctxs, entries[i].context_id.stash).context = context
                /\ event_kind(entries[i].data.event_id).reward = reward
             THEN entry_amount(ctxs, entries[i]) ELSE Zero,
             SumRewards(ctxs, entries, context, reward, i + 1))

RECURSIVE reward_summary_rows(_, _, _, _)
reward_summary_rows(ctxs, entries, order, i) ==
    IF i > Len(order) THEN <<>>
    ELSE <<RowRewardSummary(order[i],
                            SumRewards(ctxs, entries, order[i], TRUE, 1),
                            SumRewards(ctxs, entries, order[i], FALSE, 1)),
           NewLine>>
         \o reward_summary_rows(ctxs, entries, order, i + 1)

\* RewardSlashReportGenerator::generate; order is the iteration order of
\* the HashMap
generate_rewards_slashes(ctxs, entries, order) ==
    IF entries = <<>> THEN [ok |-> TRUE, reports |-> <<>>]
    ELSE IF FirstBadReward(ctxs, entries) # 0 THEN [ok |-> FALSE, reports |-> <<>>]
    ELSE [ok |-> TRUE,
          reports |-> << [name |-> "All",
                          text |-> <<HeaderRewardAll, NewLine>>
                                     \o reward_all_rows(ctxs, entries, 1)],
                         [name |-> "Summary",
                          text |-> <<HeaderRewardSummary, NewLine>>
                                     \o reward_summary_rows(ctxs, entries, order, 1)] >>]

\* rewards and slashes of two contexts: two of value zero, one event that
\* is neither a reward nor a slash
RewardAmountPool ==
    { RewardSlashRecord(21, Accounts[1], 900, RewardSlashAmount(21, 10, "Reward", "5")),
      RewardSlashRecord(22, Accounts[1], 950, RewardSlashAmount(22, 20, "Slash", "0")),
      RewardSlashRecord(23, Accounts[2], 960, RewardSlashAmount(23, 30, "Reward", "0")),
      RewardSlashRecord(24, Accounts[2], 970, RewardSlashAmount(24, 40, "Slash", "7")),
      RewardSlashRecord(25, Accounts[1], 980, RewardSlashAmount(25, 50, "Bonded", "5")) }

InitRewardReport ==
    /\ \E S \in SUBSET RewardAmountPool :
          db = [c \in Collections |-> IF c = COLL_REWARD_SLASH_RAW THEN S ELSE {}]
    /\ now = Epoch
    /\ op = NoOp
    /\ offered = {}
    /\ Tasks("unconfigured", 0)
    /\ NoReader
    /\ reportContexts \in AccountLists
    /\ report_range = 0
    /\ last_report = NoTimestamp
    /\ build = "release"
    /\ reportPc = "read"
    /\ reportData = <<>>
    /\ pending = <<>>
    /\ pubGuardUntil = 0
    /\ reportWakeAt = 0
    /\ iterations = 0
    /\ uploadFaults = 0
    /\ uploaded = <<>>

\* fetch_data: self.reader.fetch_rewards_slashes(contexts, 0, i64::MAX)
ReadRewardsSlashes ==
    /\ reportPc = "read"
    /\ reportData' = fetch_rewards_slashes(db[COLL_REWARD_SLASH_RAW],
                                           reportContexts, 0, I64_MAX)
    /\ reportPc' = "generate"
    /\ UNCHANGED <<storeVars, scrapeVars, serviceVars, readerVars, lastStart,
                   reportContexts,
                   report_range, last_report, build, pending, pubGuardUntil,
                   reportWakeAt, iterations, uploadFaults, uploaded>>

\* generator.generate(&data)
GenerateRewardsSlashes ==
    /\ reportPc = "generate"
    /\ \E order \in SummaryOrders(reportContexts, reportData) :
          LET r == generate_rewards_slashes(reportContexts, reportData, order) IN
          /\ pending' = r.reports
          /\ reportPc' = IF r.ok THEN "generated" ELSE "failed"
    /\ UNCHANGED <<storeVars, scrapeVars, serviceVars, readerVars, lastStart,
                   reportContexts,
                   report_range, last_report, build, reportData, pubGuardUntil,
                   reportWakeAt, iterations, uploadFaults, uploaded>>

NextRewardReport == ReadRewardsSlashes \/ GenerateRewardsSlashes

SpecRewardReport == InitRewardReport /\ [][NextRewardReport]_vars

\* the records of the data set whose amount is not zero
NonZero(entries) ==
    SelectSeq(entries, LAMBDA e : parse_f64(e.data.amount).val # 0)

\* C29: the per-event report of the rewards and slashes has one row for
\* each record of a non-zero amount and none for a record of amount zero,
\* and every row of the summary is that of a context with a record of a
\* non-zero amount.
ZeroAmountsDropped ==
    (reportPc = "generated" /\ reportData # <<>>) =>
        /\ Lines(pending[1].text)
             = <<<<HeaderRewardAll>>>>
                 \o [i \in 1..Len(NonZero(reportData)) |->
                        <<RowRewardAll(reportContexts, NonZero(reportData)[i])>>]
        /\ \A i \in DOMAIN pending[2].text :
              pending[2].text[i].t = "sum" =>
                 \E j \in DOMAIN reportData :
                    /\ parse_f64(reportData[j].data.amount).val # 0
                    /\ find_context(reportContexts,
                                    reportData[j].context_id.stash).context.stash
                         = pending[2].text[i].v[2]

\* C30: once a fetcher has completed a sweep, an event the explorer holds
\* for two accounts of the list is persisted under both contexts.
SharedEventUnderBothContexts ==
    \A f \in Fetchers :
        sweeps[f] >= 1 =>
            \A i \in DOMAIN contexts : \A j \in DOMAIN contexts :
                i # j =>
                    \A key \in HistoryKeys(f, contexts[i]) \cap HistoryKeys(f, contexts[j]) :
                        /\ key \in KeysOf(db[StoreCollection(f)], f, ContextId(contexts[i]))
                        /\ key \in KeysOf(db[StoreCollection(f)], f, ContextId(contexts[j]))

(***************************************************************************)
(* Recovery of the scraping loop after errors.                             *)
(***************************************************************************)
\* every event the explorer holds for the account is persisted under it
AccountPersisted(f, context) ==
    HistoryKeys(f, context) \subseteq KeysOf(db[StoreCollection(f)], f, ContextId(context))

\* the same for every account of the list
AllPersisted(f) == \A i \in DOMAIN contexts : AccountPersisted(f, contexts[i])

AwaitingStore(f, context) ==
    IF pc[f] = "store" /\ contexts[idx[f]] = context THEN PageKeys(resp[f]) ELSE {}

\* the events of the account that the cache holds and the store does not,
\* with no store under way that would write them
Lost(f, context) ==
    ((HistoryKeys(f, context) \cap cache[f])
        \ KeysOf(db[StoreCollection(f)], f, ContextId(context)))
            \ AwaitingStore(f, context)

\* an event that is lost stays lost, whatever the fetcher does afterwards:
\* no number of later sweeps persists it
LostStaysLost ==
    [][ \A f \in Fetchers : \A i \in DOMAIN contexts :
          Lost(f, contexts[i]) \subseteq Lost(f, contexts[i])' ]_vars

\* the transfer fetcher on a history of two pages, one call that fails
InitBackfill ==
    /\ db = [c \in Collections |-> {}]
    /\ now = 0
    /\ op = NoOp
    /\ offered = {}
    /\ Tasks("backfill", 1)
    /\ NoReader
    /\ NoReportTask

SpecBackfill == InitBackfill /\ [][Next]_vars /\ Fairness

PageOneCached(f, i) ==
    LET raw == explorer_page(request_host(contexts[i]), f, contexts[i].stash,
                             ROW_AMOUNT, 1) IN
    raw.some /\ PageKeys(raw) \subseteq cache[f]

\* fetcher f is past page 1 of account i, or about to store entries of it
Paging(f, i) ==
    idx[f] = i /\ (page[f] > 1 \/ (pc[f] = "store" /\ resp[f].list # <<>>))

\* once the first page of an account is cached and the paging of the
\* account is over, no later page of the account is requested again,
\* however many sweeps follow
PageOneCachedNeverPaged ==
    [][ \A f \in Fetchers : \A i \in DOMAIN contexts :
          (PageOneCached(f, i) /\ ~Paging(f, i))
              => ~(idx'[f] = i /\ page'[f] > 1) ]_vars

(***************************************************************************)
(* Sweeps without errors: no call fails, and no key is held for two        *)
(* accounts or twice for one.                                              *)
(***************************************************************************)
SweepScenarios == {"exact", "both", "kusama"}

InitSweep ==
    /\ db = [c \in Collections |-> {}]
    /\ now = 0
    /\ op = NoOp
    /\ offered = {}
    /\ \E scenario \in SweepScenarios : Tasks(scenario, 0)
    /\ NoReader
    /\ NoReportTask

NextSweep ==
    \/ \E f \in Fetchers : BeginSweep(f)
    \/ \E f \in Fetchers : TimeGuard(f)
    \/ \E f \in Fetchers : FetchReturns(f)
    \/ \E f \in Fetchers : StoreReturns(f)
    \/ \E f \in Fetchers : WakeLoop(f)
    \/ Tick

SpecSweep == InitSweep /\ [][NextSweep]_vars

\* the keys of the events the explorer of the account's network holds for
\* the account
HeldFor(f, context) ==
    LET hist == IF context.network = "polkadot"
                THEN History(chain, f, context.stash)
                ELSE KusamaHistory(chain, f, context.stash) IN
    {hist[i] : i \in DOMAIN hist}

\* C33: once a fetcher has completed a sweep, every event the explorer
\* holds for an account of the list is persisted under that account.
SweepPersistsAll ==
    \A f \in Fetchers :
        sweeps[f] >= 1 =>
            \A i \in DOMAIN contexts :
                HeldFor(f, contexts[i])
                    \subseteq KeysOf(db[StoreCollection(f)], f, ContextId(contexts[i]))

\* the same for the accounts on polkadot alone
SweepPersistsPolkadot ==
    \A f \in Fetchers :
        sweeps[f] >= 1 =>
            \A i \in DOMAIN contexts :
                contexts[i].network = "polkadot" =>
                    HeldFor(f, contexts[i])
                        \subseteq KeysOf(db[StoreCollection(f)], f, ContextId(contexts[i]))

(***************************************************************************)
(* One account whose requests fail on every attempt: in the scenarios      *)
(* "alice_down" and "bob_down" every request for that stash returns an     *)
(* error.  `faults` bounds the number of attempts a behaviour shows.       *)
(***************************************************************************)
\* the stash whose requests the explorer refuses
Down(scenario) ==
    CASE scenario = "alice_down" -> "alice"
      [] scenario = "bob_down"   -> "bob"
      [] OTHER                   -> "nobody"

\* the post for an account that is served returns Ok
FetchAnswered(f) ==
    /\ pc[f] = "post"
    /\ contexts[idx[f]].stash # Down(chain)
    /\ FetchReturns(f)

\* the post for the account that is down returns an error
FetchRefused(f) ==
    /\ pc[f] = "post"
    /\ contexts[idx[f]].stash = Down(chain)
    /\ FetchFails(f)

InitDown ==
    /\ db = [c \in Collections |-> {}]
    /\ now = 0
    /\ op = NoOp
    /\ offered = {}
    /\ \E scenario \in {"alice_down", "bob_down"} : Tasks(scenario, MaxErrors)
    /\ NoReader
    /\ NoReportTask

\* the steps of the task of fetcher f; no sweep comes to its end, so the
\* task never sleeps LOOP_INTERVAL
DownStep(f) ==
    \/ BeginSweep(f)
    \/ FetchAnswered(f)
    \/ FetchRefused(f)
    \/ StoreReturns(f)
    \/ Restart(f)

NextDown ==
    \/ \E f \in Fetchers : BeginSweep(f)
    \/ \E f \in Fetchers : TimeGuard(f)
    \/ \E f \in Fetchers : FetchAnswered(f)
    \/ \E f \in Fetchers : FetchRefused(f)
    \/ \E f \in Fetchers : StoreReturns(f)
    \/ \E f \in Fetchers : Restart(f)
    \/ Tick

SpecDown ==
    /\ InitDown
    /\ [][NextDown]_vars
    /\ WF_vars(Tick)
    /\ \A f \in Fetchers : WF_vars(DownStep(f))
    /\ \A f \in Fetchers : SF_vars(TimeGuard(f))

EarlierStillFetched ==
    \A f \in Fetchers : \A i \in DOMAIN Accounts :
        (pc[f] = "failed_sleep" /\ contexts[i].stash # Down(chain)
            /\ \E j \in DOMAIN Accounts : j > i /\ contexts[j].stash = Down(chain))
            ~> (pc[f] = "post" /\ idx[f] = i)

\* the fetcher never gets past the account that is down, however many
\* attempts it makes
NeverPastDown ==
    \A f \in Fetchers : \A i \in DOMAIN contexts :
        idx[f] > i => contexts[i].stash # Down(chain)

\* C35: the first request issued for an account in a sweep is for page 1,
\* in the sweep that follows a restart as in any other, whatever the page
\* was when the error occurred or when the account before was left.
FirstFetchIsPageOne ==
    [][ \A f \in Fetchers :
          (pc[f] = "fetch" /\ pc'[f] = "post" /\ visit[f].fetches = 0)
              => page[f] = 1 /\ page'[f] = 1 ]_vars

\* C35 witness: page 1 of alice is stored, an error has interrupted the
\* paging at page 2, and the restarted task has issued its first request,
\* for page 1 of alice
RestartedAtPageOneWitness ==
    \E f \in Fetchers :
        /\ chain = "backfill"
        /\ Cardinality(RecordsOf(db[StoreCollection(f)], f, ContextId(contexts[1])))
             = ROW_AMOUNT
        /\ failures[f].streak = 1
        /\ pc[f] = "post" /\ idx[f] = 1 /\ page[f] = 1
        /\ visit[f].fetches = 1

(***************************************************************************)
(* A process started on a database that earlier runs have filled: every    *)
(* event the explorer returns for the accounts is persisted, the cache of  *)
(* the new ChainApi is empty.                                              *)
(***************************************************************************)
\* the whole history the explorer returns for an account, as one page
WholeHistory(kind, context) ==
    explorer_page(request_host(context), kind, context.stash,
                  Len(History(chain, kind, context.stash)) + 1, 1)

RECURSIVE SettledDocs(_, _, _)
\* what the store operation of the kind has written once it was given the
\* history of account i and of the accounts after it
SettledDocs(docs, kind, i) ==
    IF i > Len(Accounts) THEN docs
    ELSE LET data == WholeHistory(kind, Accounts[i]) IN
         SettledDocs(IF data = None THEN docs
                     ELSE store_data(kind, docs, Accounts[i], data, 0, 0).docs,
                     kind, i + 1)

InitSettled ==
    /\ \E scenario \in Scenarios : Tasks(scenario, 0)
    /\ db = [c \in Collections |->
               LET kind == IF c = COLL_TRANSFER_RAW THEN "Transfer" ELSE "RewardSlash" IN
               IF kind \in Modules(chain) THEN SettledDocs({}, kind, 1) ELSE {}]
    /\ now = Epoch
    /\ op = NoOp
    /\ offered = {}
    /\ NoReader
    /\ NoReportTask

SpecSettled == InitSettled /\ [][NextSweep]_vars

\* C36: while every event the explorer returns for the accounts is
\* persisted, each request of the fetcher is the first one for its account
\* and asks for page 1, a store inserts nothing and returns 0, and the
\* fetcher goes from each account to the next and from the last one to the
\* sleep of LOOP_INTERVAL.
IdleSweepOneFetchEach ==
    [][ \A f \in Fetchers :
          AllPersisted(f) =>
            /\ (pc[f] = "fetch" /\ pc'[f] = "post")
                  => page[f] = 1 /\ visit[f].fetches = 0
            /\ pc[f] = "store" /\ pc'[f] # "store"
                  => /\ op'.n = op.n + 1 /\ op'.ok /\ op'.ret = 0
                     /\ db' = db
            /\ (pc[f] \in {"post", "store"} /\ pc'[f] \notin {"post", "store"})
                  => IF idx[f] < Len(contexts)
                     THEN pc'[f] = "fetch" /\ idx'[f] = idx[f] + 1
                     ELSE /\ pc'[f] = "loop_sleep"
                          /\ wakeAt'[f] = now + LOOP_INTERVAL
                          /\ sweeps'[f] = sweeps[f] + 1 ]_vars

\* C36 witness: a fetcher has swept twice, first with an empty cache and
\* then with the cache filled by the first sweep, and has inserted nothing
IdleSweepsWitness ==
    \E f \in Fetchers :
        /\ pc[f] = "loop_sleep" /\ sweeps[f] = 2
        /\ cache[f] # {}
        /\ op.n >= 2 /\ op.kind = f /\ op.ret = 0
        /\ db[StoreCollection(f)] # {}
        /\ \A d \in db[StoreCollection(f)] : d.timestamp = 0

\* C37: a fetcher about to call store_data holds a response with a list,
\* and every call of a store operation the loop has made was given a
\* response with a list, so that no call has returned the error of the
\* absent list; a response the cache filter has emptied has a list.
StoreNeverSeesAbsentList ==
    /\ \A f \in Fetchers : pc[f] = "store" => resp[f].some
    /\ op.n > 0 => op.page.some
    /\ (op.n > 0 /\ ~op.ok) => op.ran < Len(op.page.list)

\* C37 witness: the store was called with a page the cache filter had
\* emptied and returned Ok(0)
EmptiedPageStoredWitness ==
    /\ op.n > 0 /\ op.page = Some(<<>>)
    /\ op.ok /\ op.ret = 0
    /\ cache[op.kind] # {}

\* C38: the amount of every row of the summary is the sum of the amounts of
\* the records whose context_id is the (network, stash) of the row: no
\* record is summed under another context.
RowsSumOwnRecords ==
    (reportPc = "generated" /\ reportData # <<>>) =>
        \A k \in DOMAIN pending[2].text :
            LET row == pending[2].text[k] IN
            row.t = "sum" =>
                row.v[4] = AmountOf([stash |-> row.v[2], network |-> row.v[1]],
                                    reportData, 1)

\* C39: the subtraction now - report_range of fetch_data never underflows:
\* for every report_range the call returns, it does not panic, and it
\* returns data only when the difference taken without wrap-around lies
\* after last_report.
GateNeverUnderflows ==
    [][ FetchData =>
          /\ reportPc' # "dead"
          /\ reportPc' = "upload" => LastReport + report_range < now ]_vars

(***************************************************************************)
(* Progress of the scraping service: the fetchers and add_contexts under   *)
(* a scheduler that polls every task that can take a step.                 *)
(***************************************************************************)
\* the steps of the task of fetcher f when no call fails
SweepStep(f) ==
    \/ BeginSweep(f)
    \/ FetchReturns(f)
    \/ StoreReturns(f)
    \/ WakeLoop(f)

\* time advances, every task that can take a step is polled, the mutex of
\* the guard and the lock of the account list serve their waiters
FairContexts ==
    /\ WF_vars(Tick)
    /\ \A f \in Fetchers : WF_vars(SweepStep(f))
    /\ \A f \in Fetchers : SF_vars(TimeGuard(f))
    /\ WF_vars(AppendContexts)

\* both fetchers at work over the database earlier runs have filled, no
\* call that fails
InitProgress ==
    /\ Tasks("both", 0)
    /\ db = [c \in Collections |->
               SettledDocs({}, IF c = COLL_TRANSFER_RAW THEN "Transfer"
                                                        ELSE "RewardSlash", 1)]
    /\ now = 0
    /\ op = NoOp
    /\ offered = {}
    /\ NoReader
    /\ NoReportTask

SpecProgress == InitProgress /\ [][NextContexts]_vars /\ FairContexts

\* fetcher f holds its read guard and waits for the guard of the explorer
WaitsForGuard(f) == pc[f] = "fetch" /\ now < guardUntil

\* C40: the scraping service is free of deadlock: a fetcher that waits for
\* the rate guard while it holds the read guard of the account list comes
\* to post its request, a writer queued on the account list comes to append,
\* and a fetcher queued behind the writer comes to begin its sweep.
ScrapingDeadlockFree ==
    /\ \A f \in Fetchers : WaitsForGuard(f) ~> pc[f] = "post"
    /\ (adding.pc = "waiting") ~> (adding.pc = "done")
    /\ \A f \in Fetchers :
          (pc[f] = "sweep" /\ adding.pc = "waiting") ~> (pc[f] = "fetch")

\* C40 witness: both fetchers hold their read guard and wait for the rate
\* guard while add_contexts is queued on the account list
WaitingWithWriterQueuedWitness ==
    /\ adding.pc = "waiting"
    /\ adding.during = Modules("both")
    /\ Cardinality(Modules("both")) > 1
    /\ \A f \in Modules("both") : WaitsForGuard(f)

====
